---- MODULE Spec2Model ----
(***************************************************************************)
(* The DREAMT token program (programs/dreamt): the issuance state, the      *)
(* blacklist and the instructions that act on them.                         *)
(*                                                                          *)
(* An instruction runs in three stages, as Anchor generates them from the   *)
(* #[program] module and the #[derive(Accounts)] structs:                   *)
(*   1. the accounts are loaded and their constraints are checked;          *)
(*   2. the handler runs on the deserialized copies of the accounts;        *)
(*   3. when the handler returns Ok the accounts marked `mut` are written   *)
(*      back; when it returns Err nothing is written and every effect of    *)
(*      the instruction, its CPI calls included, is discarded.              *)
(* token_state and blacklist below are the persisted accounts; the records  *)
(* the handlers compute are the deserialized copies.                        *)
(***************************************************************************)
EXTENDS Integers, Sequences, FiniteSets, TLC

(***************************************************************************)
(* u64 arithmetic.  A u64 that may exceed the checker's integers is a       *)
(* sequence of base-1000 limbs, least significant first, without leading    *)
(* zero limbs (the empty sequence is 0).                                    *)
(***************************************************************************)
Base == 10^3

RECURSIVE Big(_)
Big(n) == IF n = 0 THEN <<>> ELSE <<n % Base>> \o Big(n \div Base)

RECURSIVE BigToInt(_)
BigToInt(a) == IF a = <<>> THEN 0 ELSE Head(a) + Base * BigToInt(Tail(a))

RECURSIVE MulCarry(_, _, _)
MulCarry(a, k, c) ==
    IF a = <<>> THEN Big(c)
    ELSE LET p == Head(a) * k + c
         IN  <<p % Base>> \o MulCarry(Tail(a), k, p \div Base)

\* a * k for a limb sequence a and a machine integer 0 <= k <= 10^6
BigMulInt(a, k) == IF k = 0 THEN <<>> ELSE MulCarry(a, k, 0)

RECURSIVE AddCarry(_, _, _)
AddCarry(a, b, c) ==
    IF a = <<>> /\ b = <<>> THEN Big(c)
    ELSE LET x == IF a = <<>> THEN 0 ELSE Head(a)
             y == IF b = <<>> THEN 0 ELSE Head(b)
             s == x + y + c
         IN  <<s % Base>> \o AddCarry(IF a = <<>> THEN <<>> ELSE Tail(a),
                                      IF b = <<>> THEN <<>> ELSE Tail(b),
                                      s \div Base)

BigAdd(a, b) == AddCarry(a, b, 0)

RECURSIVE LtFromTop(_, _, _)
LtFromTop(a, b, i) ==
    IF i = 0 THEN FALSE
    ELSE IF a[i] # b[i] THEN a[i] < b[i]
    ELSE LtFromTop(a, b, i - 1)

BigLt(a, b) ==
    IF Len(a) # Len(b) THEN Len(a) < Len(b) ELSE LtFromTop(a, b, Len(a))

BigLe(a, b) == ~BigLt(b, a)

\* u64::MAX + 1 = 2^64
TwoTo64 == BigMulInt(BigMulInt(BigMulInt(BigMulInt(Big(2^16), 2^16), 2^16), 2^10), 2^6)

\* u64::checked_mul by a constant: None on overflow
checked_mul(a, k) ==
    LET p == BigMulInt(a, k)
    IN  IF BigLt(p, TwoTo64) THEN [ok |-> TRUE, val |-> p]
        ELSE [ok |-> FALSE, val |-> <<>>]

\* u64::checked_add: None on overflow
checked_add(a, b) ==
    LET s == BigAdd(a, b)
    IN  IF BigLt(s, TwoTo64) THEN [ok |-> TRUE, val |-> s]
        ELSE [ok |-> FALSE, val |-> <<>>]

\* u64::checked_sub: None on underflow (machine-integer operands)
checked_sub(a, b) ==
    IF b <= a THEN [ok |-> TRUE, val |-> a - b] ELSE [ok |-> FALSE, val |-> 0]

(***************************************************************************)
(* Program constants (constants.rs)                                         *)
(***************************************************************************)
INITIAL_SUPPLY == 8000000
\* mutant: one billion tokens
MAX_SUPPLY_one_billion == 10^9

MAX_SUPPLY == 100000000
\* mutant: 0.8 USDC taken with seven decimals
TOKEN_PRICE_USDC_seven_decimals == 8 * 10^6

TOKEN_PRICE_USDC == 8 * 10^5
\* mutant: 1 USDC minimum purchase
MIN_PURCHASE_USDC_one_usdc == 1 * 10^6

MIN_PURCHASE_USDC == 10 * 10^6
MAX_PURCHASE_USDC == BigMulInt(Big(100000), 10^6)
MAX_BLACKLIST_SIZE == 100
OPERATION_COOLDOWN == 1
UNPAUSE_COOLDOWN == 15 * 60
MULTISIG_THRESHOLD == 3
MULTISIG_OWNERS == 5

(***************************************************************************)
(* Bounds of the model and the inputs the instructions are tried with       *)
(***************************************************************************)
MaxTicks == 2

\* u64::MAX
U64_MAX == <<615, 551, 709, 73, 744, 446, 18>>

\* the least amount whose price overflows a u64: 23_058_430_092_137
OverflowAmount == <<137, 92, 430, 58, 23>>

MintAmounts == {Big(0), Big(1), Big(12), Big(13), Big(50), Big(125000),
                Big(125001), OverflowAmount}

BurnAmounts == {Big(0), Big(50), Big(INITIAL_SUPPLY + 51), OverflowAmount}

PurchaseAmounts == {Big(0), Big(50)}

NewMaxima == {Big(0), Big(INITIAL_SUPPLY - 1), Big(INITIAL_SUPPLY),
              Big(INITIAL_SUPPLY + 50), Big(MAX_SUPPLY), Big(MAX_SUPPLY + 1)}

Balances == {Big(0), U64_MAX}

\* the clock never runs backwards; it advances by one of these
ClockSteps == {OPERATION_COOLDOWN, UNPAUSE_COOLDOWN - 1}

MultisigKey == "msig"
PayerKey == "admin"
VaultOwnerPda == "vault_owner"
Users == {"alice", "bob"}
Presented == {MultisigKey, "alice"}

\* which CPI call of the instruction the token program fails (0: none)
Rails == 0..2

\* the calls each instruction is tried with
InitializeCalls ==
    {[payer |-> PayerKey, multisig |-> MultisigKey, owners_len |-> c[1],
      threshold |-> c[2], rail |-> c[3]] :
        c \in {<<MULTISIG_OWNERS, MULTISIG_THRESHOLD, 0>>,
               <<MULTISIG_OWNERS, MULTISIG_THRESHOLD, 1>>,
               <<MULTISIG_OWNERS - 1, MULTISIG_THRESHOLD, 0>>,
               <<MULTISIG_OWNERS, MULTISIG_THRESHOLD - 1, 0>>}}

MintCalls ==
    {[user |-> u, amount |-> a, rail |-> 0] : u \in Users, a \in MintAmounts}
    \cup {[user |-> "alice", amount |-> Big(50), rail |-> k] : k \in Rails}

BurnCalls ==
    {[amount |-> a, multisig |-> MultisigKey, vault_amount |-> U64_MAX,
      refund_balance |-> U64_MAX, rail |-> 0] : a \in BurnAmounts}
    \cup {[amount |-> Big(50), multisig |-> m, vault_amount |-> v,
           refund_balance |-> b, rail |-> 0] :
              m \in Presented, v \in Balances, b \in Balances}
    \cup {[amount |-> Big(50), multisig |-> MultisigKey,
           vault_amount |-> U64_MAX, refund_balance |-> U64_MAX,
           rail |-> k] : k \in Rails}

MaxSupplyCalls ==
    {[new_max_supply |-> n, multisig |-> MultisigKey] : n \in NewMaxima}
    \cup {[new_max_supply |-> Big(INITIAL_SUPPLY + 50), multisig |-> "alice"]}

BlacklistCalls == [address : Users, multisig : Presented]

PurchaseCalls ==
    {[amount |-> a, item_id_len |-> l, vault_owner |-> VaultOwnerPda,
      rail |-> 0] : a \in PurchaseAmounts, l \in {0, 32, 33}}
    \cup {[amount |-> Big(50), item_id_len |-> 32, vault_owner |-> o,
           rail |-> k] : o \in {VaultOwnerPda, "alice"}, k \in 0..1}

\* vault balances around the reserve the initial supply needs:
\* INITIAL_SUPPLY * TOKEN_PRICE_USDC = 6_400_000_000_000, and one less
ReserveAmounts == Balances \cup {<<0, 0, 0, 400, 6>>,
                                 <<999, 999, 999, 399, 6>>}

HookCalls == [amount : PurchaseAmounts, source_owner : Users,
              destination_owner : Users]

(***************************************************************************)
(* State                                                                    *)
(***************************************************************************)
VARIABLES
    token_state,      \* the TokenState account (state.rs), as persisted
    token_state_live, \* whether the TokenState account exists
    blacklist,        \* Blacklist.addresses, as persisted
    blacklist_live,   \* whether the Blacklist account exists
    now,              \* Clock::get()?.unix_timestamp
    ticks,            \* how often the clock has advanced
    last              \* the last instruction: its name, its arguments, its
                      \* result, the CPI calls it made and those whose
                      \* effects are committed

vars == <<token_state, token_state_live, blacklist, blacklist_live, now,
          ticks, last>>

\* TokenState::default()
TokenStateDefault ==
    [authority |-> "", total_supply |-> 0, max_supply |-> 0,
     is_paused |-> FALSE, last_pause_timestamp |-> 0, multisig |-> "",
     vault_owner |-> "", in_operation |-> FALSE,
     last_operation_timestamp |-> 0]

\* what a handler returns: its Result, the deserialized accounts as it leaves
\* them, and the CPI calls it made
Ret(result, st, bl, cpis) ==
    [result |-> result, st |-> st, bl |-> bl, cpis |-> cpis]

\* a CPI call into the token program: what it moves (kind), how much, and
\* the ledger value the handler holds when it makes the call
Cpi(kind, amount, st) ==
    [kind |-> kind, amount |-> amount, supply |-> st.total_supply]

(***************************************************************************)
(* TokenState methods (state.rs)                                            *)
(***************************************************************************)
\* mutant: a flag left set stops counting once the cooldown has elapsed
start_operation_flag_expires(st, t) ==
    IF st.in_operation /\ t - st.last_operation_timestamp < OPERATION_COOLDOWN
    THEN [result |-> "ReentrancyNotAllowed", st |-> st]
    ELSE IF t - st.last_operation_timestamp < OPERATION_COOLDOWN
    THEN [result |-> "OperationCooldownNotElapsed", st |-> st]
    ELSE [result |-> "Ok",
          st |-> [st EXCEPT !.in_operation = TRUE,
                            !.last_operation_timestamp = t]]

\* mutant: the cooldown has to be exceeded, not only reached
start_operation_after_cooldown(st, t) ==
    IF st.in_operation THEN [result |-> "ReentrancyNotAllowed", st |-> st]
    ELSE IF t - st.last_operation_timestamp <= OPERATION_COOLDOWN
    THEN [result |-> "OperationCooldownNotElapsed", st |-> st]
    ELSE [result |-> "Ok",
          st |-> [st EXCEPT !.in_operation = TRUE,
                            !.last_operation_timestamp = t]]

start_operation(st, t) ==
    IF st.in_operation THEN [result |-> "ReentrancyNotAllowed", st |-> st]
    ELSE IF t - st.last_operation_timestamp < OPERATION_COOLDOWN
    THEN [result |-> "OperationCooldownNotElapsed", st |-> st]
    ELSE [result |-> "Ok",
          st |-> [st EXCEPT !.in_operation = TRUE,
                            !.last_operation_timestamp = t]]

\* mutant: the flag is left set
end_operation_keeps_flag(st) == st

end_operation(st) == [st EXCEPT !.in_operation = FALSE]

is_admin(st, admin) == st.authority = admin

update_total_supply_sub(st, amount) ==
    IF BigLe(amount, Big(st.total_supply))
    THEN [result |-> "Ok",
          st |-> [st EXCEPT !.total_supply =
                      checked_sub(st.total_supply, BigToInt(amount)).val]]
    ELSE [result |-> "MathOverflow", st |-> st]

calculate_refund_amount(amount) == checked_mul(amount, TOKEN_PRICE_USDC)

(***************************************************************************)
(* Handlers (lib.rs, mod dreamt).  Each runs on the deserialized token      *)
(* state st, at clock value t, and returns Ret(...).                        *)
(***************************************************************************)
\* mutant: the ledger is committed before the settlement calls, and the
\* result of mint_to is dropped
mint_by_user_commit_first(st, bl, amount, t, rail) ==
    LET g == start_operation(st, t) IN
    IF g.result # "Ok" THEN Ret(g.result, g.st, bl, <<>>) ELSE
    LET s == g.st IN
    IF ~BigLt(Big(0), amount) THEN Ret("InvalidAmount", s, bl, <<>>) ELSE
    LET payment_amount == checked_mul(amount, TOKEN_PRICE_USDC) IN
    IF ~payment_amount.ok THEN Ret("MathOverflow", s, bl, <<>>) ELSE
    IF BigLt(payment_amount.val, Big(MIN_PURCHASE_USDC))
    THEN Ret("PurchaseAmountTooSmall", s, bl, <<>>) ELSE
    IF BigLt(MAX_PURCHASE_USDC, payment_amount.val)
    THEN Ret("PurchaseAmountTooLarge", s, bl, <<>>) ELSE
    LET new_supply == checked_add(Big(s.total_supply), amount) IN
    IF ~new_supply.ok THEN Ret("MathOverflow", s, bl, <<>>) ELSE
    IF BigLt(Big(s.max_supply), new_supply.val)
    THEN Ret("MaxSupplyExceeded", s, bl, <<>>) ELSE
    IF VaultOwnerPda # s.vault_owner
    THEN Ret("InvalidVaultOwner", s, bl, <<>>) ELSE
    LET s2 == [s EXCEPT !.total_supply = BigToInt(new_supply.val)]
        pay == Cpi("payment", payment_amount.val, s2)
    IN
    IF rail = 1 THEN Ret("CpiFailed", s2, bl, <<pay>>) ELSE
    LET mint == Cpi("mint_to", amount, s2) IN
    Ret("Ok", end_operation(s2), bl, <<pay, mint>>)

\* mutant: the supply cap is checked before the purchase bounds
mint_by_user_cap_first(st, bl, amount, t, rail) ==
    LET g == start_operation(st, t) IN
    IF g.result # "Ok" THEN Ret(g.result, g.st, bl, <<>>) ELSE
    LET s == g.st IN
    IF ~BigLt(Big(0), amount) THEN Ret("InvalidAmount", s, bl, <<>>) ELSE
    LET payment_amount == checked_mul(amount, TOKEN_PRICE_USDC) IN
    IF ~payment_amount.ok THEN Ret("MathOverflow", s, bl, <<>>) ELSE
    LET new_supply == checked_add(Big(s.total_supply), amount) IN
    IF ~new_supply.ok THEN Ret("MathOverflow", s, bl, <<>>) ELSE
    IF BigLt(Big(s.max_supply), new_supply.val)
    THEN Ret("MaxSupplyExceeded", s, bl, <<>>) ELSE
    IF BigLt(payment_amount.val, Big(MIN_PURCHASE_USDC))
    THEN Ret("PurchaseAmountTooSmall", s, bl, <<>>) ELSE
    IF BigLt(MAX_PURCHASE_USDC, payment_amount.val)
    THEN Ret("PurchaseAmountTooLarge", s, bl, <<>>) ELSE
    IF VaultOwnerPda # s.vault_owner
    THEN Ret("InvalidVaultOwner", s, bl, <<>>) ELSE
    LET pay == Cpi("payment", payment_amount.val, s) IN
    IF rail = 1 THEN Ret("CpiFailed", s, bl, <<pay>>) ELSE
    LET mint == Cpi("mint_to", amount, s) IN
    IF rail = 2 THEN Ret("CpiFailed", s, bl, <<pay, mint>>) ELSE
    Ret("Ok",
        end_operation([s EXCEPT !.total_supply = BigToInt(new_supply.val)]),
        bl, <<pay, mint>>)

mint_by_user(st, bl, amount, t, rail) ==
    LET g == start_operation(st, t) IN
    IF g.result # "Ok" THEN Ret(g.result, g.st, bl, <<>>) ELSE
    LET s == g.st IN
    IF ~BigLt(Big(0), amount) THEN Ret("InvalidAmount", s, bl, <<>>) ELSE
    LET payment_amount == checked_mul(amount, TOKEN_PRICE_USDC) IN
    IF ~payment_amount.ok THEN Ret("MathOverflow", s, bl, <<>>) ELSE
    IF BigLt(payment_amount.val, Big(MIN_PURCHASE_USDC))
    THEN Ret("PurchaseAmountTooSmall", s, bl, <<>>) ELSE
    IF BigLt(MAX_PURCHASE_USDC, payment_amount.val)
    THEN Ret("PurchaseAmountTooLarge", s, bl, <<>>) ELSE
    LET new_supply == checked_add(Big(s.total_supply), amount) IN
    IF ~new_supply.ok THEN Ret("MathOverflow", s, bl, <<>>) ELSE
    IF BigLt(Big(s.max_supply), new_supply.val)
    THEN Ret("MaxSupplyExceeded", s, bl, <<>>) ELSE
    IF VaultOwnerPda # s.vault_owner
    THEN Ret("InvalidVaultOwner", s, bl, <<>>) ELSE
    LET pay == Cpi("payment", payment_amount.val, s) IN
    IF rail = 1 THEN Ret("CpiFailed", s, bl, <<pay>>) ELSE
    LET mint == Cpi("mint_to", amount, s) IN
    IF rail = 2 THEN Ret("CpiFailed", s, bl, <<pay, mint>>) ELSE
    Ret("Ok",
        end_operation([s EXCEPT !.total_supply = BigToInt(new_supply.val)]),
        bl, <<pay, mint>>)

\* mutant: the result of the refund transfer is dropped
\* mutant: the vault balance is not compared with the amount
admin_burn_without_vault_check(st, bl, amount, multisig, vault_amount, refund_balance, t, rail) ==
    IF ~BigLt(Big(0), amount) THEN Ret("InvalidAmount", st, bl, <<>>) ELSE
    LET g == start_operation(st, t) IN
    IF g.result # "Ok" THEN Ret(g.result, g.st, bl, <<>>) ELSE
    LET s == g.st IN
    IF s.multisig # multisig THEN Ret("InvalidMultisig", s, bl, <<>>) ELSE
    IF s.is_paused THEN Ret("ProgramPaused", s, bl, <<>>) ELSE
    LET refund_amount == calculate_refund_amount(amount) IN
    IF ~refund_amount.ok THEN Ret("MathOverflow", s, bl, <<>>) ELSE
    LET u == update_total_supply_sub(s, amount) IN
    IF u.result # "Ok" THEN Ret(u.result, u.st, bl, <<>>) ELSE
    LET s2 == u.st IN
    IF BigLt(refund_balance, refund_amount.val)
    THEN Ret("InsufficientFunds", s2, bl, <<>>) ELSE
    LET burn == Cpi("burn", amount, s2) IN
    IF rail = 1 THEN Ret("CpiFailed", s2, bl, <<burn>>) ELSE
    LET refund == Cpi("refund", refund_amount.val, s2) IN
    IF rail = 2 THEN Ret("CpiFailed", s2, bl, <<burn, refund>>) ELSE
    Ret("Ok", end_operation(s2), bl, <<burn, refund>>)

admin_burn_drops_refund_result(st, bl, amount, multisig, vault_amount, refund_balance, t, rail) ==
    IF ~BigLt(Big(0), amount) THEN Ret("InvalidAmount", st, bl, <<>>) ELSE
    LET g == start_operation(st, t) IN
    IF g.result # "Ok" THEN Ret(g.result, g.st, bl, <<>>) ELSE
    LET s == g.st IN
    IF s.multisig # multisig THEN Ret("InvalidMultisig", s, bl, <<>>) ELSE
    IF s.is_paused THEN Ret("ProgramPaused", s, bl, <<>>) ELSE
    IF BigLt(vault_amount, amount)
    THEN Ret("InsufficientBalance", s, bl, <<>>) ELSE
    LET refund_amount == calculate_refund_amount(amount) IN
    IF ~refund_amount.ok THEN Ret("MathOverflow", s, bl, <<>>) ELSE
    LET u == update_total_supply_sub(s, amount) IN
    IF u.result # "Ok" THEN Ret(u.result, u.st, bl, <<>>) ELSE
    LET s2 == u.st IN
    IF BigLt(refund_balance, refund_amount.val)
    THEN Ret("InsufficientFunds", s2, bl, <<>>) ELSE
    LET burn == Cpi("burn", amount, s2) IN
    IF rail = 1 THEN Ret("CpiFailed", s2, bl, <<burn>>) ELSE
    LET refund == Cpi("refund", refund_amount.val, s2) IN
    Ret("Ok", end_operation(s2), bl, <<burn, refund>>)

admin_burn(st, bl, amount, multisig, vault_amount, refund_balance, t, rail) ==
    IF ~BigLt(Big(0), amount) THEN Ret("InvalidAmount", st, bl, <<>>) ELSE
    LET g == start_operation(st, t) IN
    IF g.result # "Ok" THEN Ret(g.result, g.st, bl, <<>>) ELSE
    LET s == g.st IN
    IF s.multisig # multisig THEN Ret("InvalidMultisig", s, bl, <<>>) ELSE
    IF s.is_paused THEN Ret("ProgramPaused", s, bl, <<>>) ELSE
    IF BigLt(vault_amount, amount)
    THEN Ret("InsufficientBalance", s, bl, <<>>) ELSE
    LET refund_amount == calculate_refund_amount(amount) IN
    IF ~refund_amount.ok THEN Ret("MathOverflow", s, bl, <<>>) ELSE
    LET u == update_total_supply_sub(s, amount) IN
    IF u.result # "Ok" THEN Ret(u.result, u.st, bl, <<>>) ELSE
    LET s2 == u.st IN
    IF BigLt(refund_balance, refund_amount.val)
    THEN Ret("InsufficientFunds", s2, bl, <<>>) ELSE
    LET burn == Cpi("burn", amount, s2) IN
    IF rail = 1 THEN Ret("CpiFailed", s2, bl, <<burn>>) ELSE
    LET refund == Cpi("refund", refund_amount.val, s2) IN
    IF rail = 2 THEN Ret("CpiFailed", s2, bl, <<burn, refund>>) ELSE
    Ret("Ok", end_operation(s2), bl, <<burn, refund>>)

\* mutant: the new maximum is not compared with the current supply
\* mutant: the maximum can be lowered while the program is paused
update_max_supply_while_paused(st, bl, new_max_supply, multisig) ==
    IF st.multisig # multisig THEN Ret("InvalidMultisig", st, bl, <<>>) ELSE
    IF ~BigLt(Big(0), new_max_supply)
    THEN Ret("InvalidMaxSupply", st, bl, <<>>) ELSE
    IF BigLt(new_max_supply, Big(st.total_supply))
    THEN Ret("MaxSupplyReductionTooLarge", st, bl, <<>>) ELSE
    IF BigLt(Big(st.max_supply), new_max_supply)
    THEN Ret("CannotIncreaseMaxSupply", st, bl, <<>>) ELSE
    Ret("Ok", [st EXCEPT !.max_supply = BigToInt(new_max_supply)], bl, <<>>)

\* mutant: the pause is tested before the multisig
update_max_supply_pause_first(st, bl, new_max_supply, multisig) ==
    IF st.is_paused THEN Ret("ProgramPaused", st, bl, <<>>) ELSE
    IF st.multisig # multisig THEN Ret("InvalidMultisig", st, bl, <<>>) ELSE
    IF ~BigLt(Big(0), new_max_supply)
    THEN Ret("InvalidMaxSupply", st, bl, <<>>) ELSE
    IF BigLt(new_max_supply, Big(st.total_supply))
    THEN Ret("MaxSupplyReductionTooLarge", st, bl, <<>>) ELSE
    IF BigLt(Big(st.max_supply), new_max_supply)
    THEN Ret("CannotIncreaseMaxSupply", st, bl, <<>>) ELSE
    Ret("Ok", [st EXCEPT !.max_supply = BigToInt(new_max_supply)], bl, <<>>)

update_max_supply_below_supply(st, bl, new_max_supply, multisig) ==
    IF st.multisig # multisig THEN Ret("InvalidMultisig", st, bl, <<>>) ELSE
    IF st.is_paused THEN Ret("ProgramPaused", st, bl, <<>>) ELSE
    IF ~BigLt(Big(0), new_max_supply)
    THEN Ret("InvalidMaxSupply", st, bl, <<>>) ELSE
    IF BigLt(Big(st.max_supply), new_max_supply)
    THEN Ret("CannotIncreaseMaxSupply", st, bl, <<>>) ELSE
    Ret("Ok", [st EXCEPT !.max_supply = BigToInt(new_max_supply)], bl, <<>>)

\* mutant: the new maximum is not compared with the current maximum
update_max_supply_may_increase(st, bl, new_max_supply, multisig) ==
    IF st.multisig # multisig THEN Ret("InvalidMultisig", st, bl, <<>>) ELSE
    IF st.is_paused THEN Ret("ProgramPaused", st, bl, <<>>) ELSE
    IF ~BigLt(Big(0), new_max_supply)
    THEN Ret("InvalidMaxSupply", st, bl, <<>>) ELSE
    IF BigLt(new_max_supply, Big(st.total_supply))
    THEN Ret("MaxSupplyReductionTooLarge", st, bl, <<>>) ELSE
    Ret("Ok", [st EXCEPT !.max_supply = BigToInt(new_max_supply)], bl, <<>>)

update_max_supply(st, bl, new_max_supply, multisig) ==
    IF st.multisig # multisig THEN Ret("InvalidMultisig", st, bl, <<>>) ELSE
    IF st.is_paused THEN Ret("ProgramPaused", st, bl, <<>>) ELSE
    IF ~BigLt(Big(0), new_max_supply)
    THEN Ret("InvalidMaxSupply", st, bl, <<>>) ELSE
    IF BigLt(new_max_supply, Big(st.total_supply))
    THEN Ret("MaxSupplyReductionTooLarge", st, bl, <<>>) ELSE
    IF BigLt(Big(st.max_supply), new_max_supply)
    THEN Ret("CannotIncreaseMaxSupply", st, bl, <<>>) ELSE
    Ret("Ok", [st EXCEPT !.max_supply = BigToInt(new_max_supply)], bl, <<>>)

\* mutant: a pause of the paused program goes through and stamps again
\* mutant: pause goes through the operation guard
pause_through_guard(st, bl, multisig, t) ==
    LET g == start_operation(st, t) IN
    IF g.result # "Ok" THEN Ret(g.result, g.st, bl, <<>>) ELSE
    LET s == g.st IN
    IF s.multisig # multisig THEN Ret("InvalidMultisig", s, bl, <<>>) ELSE
    IF s.is_paused THEN Ret("AlreadyPaused", s, bl, <<>>) ELSE
    Ret("Ok", end_operation([s EXCEPT !.is_paused = TRUE,
                                      !.last_pause_timestamp = t]),
        bl, <<>>)

pause_restamps(st, bl, multisig, t) ==
    IF st.multisig # multisig THEN Ret("InvalidMultisig", st, bl, <<>>) ELSE
    Ret("Ok", [st EXCEPT !.is_paused = TRUE, !.last_pause_timestamp = t],
        bl, <<>>)

pause(st, bl, multisig, t) ==
    IF st.multisig # multisig THEN Ret("InvalidMultisig", st, bl, <<>>) ELSE
    IF st.is_paused THEN Ret("AlreadyPaused", st, bl, <<>>) ELSE
    Ret("Ok", [st EXCEPT !.is_paused = TRUE, !.last_pause_timestamp = t],
        bl, <<>>)

\* mutant: the cooldown has to be exceeded, not only reached
unpause_after_boundary(st, bl, multisig, t) ==
    IF st.multisig # multisig THEN Ret("InvalidMultisig", st, bl, <<>>) ELSE
    IF ~st.is_paused THEN Ret("NotPaused", st, bl, <<>>) ELSE
    LET cooldown_elapsed == t - st.last_pause_timestamp IN
    IF cooldown_elapsed <= UNPAUSE_COOLDOWN
    THEN Ret("UnpauseCooldownNotElapsed", st, bl, <<>>) ELSE
    Ret("Ok", [st EXCEPT !.is_paused = FALSE], bl, <<>>)

\* mutant: the multisig presented is not compared with the one on record
unpause_any_multisig(st, bl, multisig, t) ==
    IF ~st.is_paused THEN Ret("NotPaused", st, bl, <<>>) ELSE
    LET cooldown_elapsed == t - st.last_pause_timestamp IN
    IF cooldown_elapsed < UNPAUSE_COOLDOWN
    THEN Ret("UnpauseCooldownNotElapsed", st, bl, <<>>) ELSE
    Ret("Ok", [st EXCEPT !.is_paused = FALSE], bl, <<>>)

unpause(st, bl, multisig, t) ==
    IF st.multisig # multisig THEN Ret("InvalidMultisig", st, bl, <<>>) ELSE
    IF ~st.is_paused THEN Ret("NotPaused", st, bl, <<>>) ELSE
    LET cooldown_elapsed == t - st.last_pause_timestamp IN
    IF cooldown_elapsed < UNPAUSE_COOLDOWN
    THEN Ret("UnpauseCooldownNotElapsed", st, bl, <<>>) ELSE
    Ret("Ok", [st EXCEPT !.is_paused = FALSE], bl, <<>>)

(***************************************************************************)
(* Blacklist methods (state.rs); bl is the Vec<Pubkey> addresses            *)
(***************************************************************************)
contains(bl, address) == \E i \in 1..Len(bl) : bl[i] = address

\* Vec::iter().position(): the first index holding address
position(bl, address) ==
    CHOOSE i \in 1..Len(bl) :
        bl[i] = address /\ \A j \in 1..(i - 1) : bl[j] # address

\* Vec::swap_remove(index): the last element takes the place of the removed
\* mutant: the last element is dropped without taking the removed one's place
swap_remove_drops_last(bl, index) == SubSeq(bl, 1, Len(bl) - 1)

swap_remove(bl, index) ==
    LET moved == [bl EXCEPT ![index] = bl[Len(bl)]]
    IN  SubSeq(moved, 1, Len(bl) - 1)

\* mutant: the size test is off by one
\* mutant: the size is tested before the membership
add_size_first(bl, address) ==
    IF ~(Len(bl) < MAX_BLACKLIST_SIZE)
    THEN [result |-> "BlacklistFull", bl |-> bl]
    ELSE IF contains(bl, address)
    THEN [result |-> "AddressAlreadyBlacklisted", bl |-> bl]
    ELSE [result |-> "Ok", bl |-> Append(bl, address)]

add_one_too_many(bl, address) ==
    IF contains(bl, address)
    THEN [result |-> "AddressAlreadyBlacklisted", bl |-> bl]
    ELSE IF ~(Len(bl) <= MAX_BLACKLIST_SIZE)
    THEN [result |-> "BlacklistFull", bl |-> bl]
    ELSE [result |-> "Ok", bl |-> Append(bl, address)]

add(bl, address) ==
    IF contains(bl, address)
    THEN [result |-> "AddressAlreadyBlacklisted", bl |-> bl]
    ELSE IF ~(Len(bl) < MAX_BLACKLIST_SIZE)
    THEN [result |-> "BlacklistFull", bl |-> bl]
    ELSE [result |-> "Ok", bl |-> Append(bl, address)]

remove(bl, address) ==
    IF contains(bl, address)
    THEN [result |-> "Ok", bl |-> swap_remove(bl, position(bl, address))]
    ELSE [result |-> "AddressNotBlacklisted", bl |-> bl]

\* mutant: the pause is not looked at
add_to_blacklist_while_paused(st, bl, address, multisig, t) ==
    LET g == start_operation(st, t) IN
    IF g.result # "Ok" THEN Ret(g.result, g.st, bl, <<>>) ELSE
    LET s == g.st IN
    IF s.multisig # multisig THEN Ret("InvalidMultisig", s, bl, <<>>) ELSE
    LET a == add(bl, address) IN
    IF a.result # "Ok" THEN Ret(a.result, s, a.bl, <<>>) ELSE
    Ret("Ok", end_operation(s), a.bl, <<>>)

add_to_blacklist(st, bl, address, multisig, t) ==
    LET g == start_operation(st, t) IN
    IF g.result # "Ok" THEN Ret(g.result, g.st, bl, <<>>) ELSE
    LET s == g.st IN
    IF s.multisig # multisig THEN Ret("InvalidMultisig", s, bl, <<>>) ELSE
    IF s.is_paused THEN Ret("ProgramPaused", s, bl, <<>>) ELSE
    LET a == add(bl, address) IN
    IF a.result # "Ok" THEN Ret(a.result, s, a.bl, <<>>) ELSE
    Ret("Ok", end_operation(s), a.bl, <<>>)

remove_from_blacklist(st, bl, address, multisig, t) ==
    LET g == start_operation(st, t) IN
    IF g.result # "Ok" THEN Ret(g.result, g.st, bl, <<>>) ELSE
    LET s == g.st IN
    IF s.multisig # multisig THEN Ret("InvalidMultisig", s, bl, <<>>) ELSE
    IF s.is_paused THEN Ret("ProgramPaused", s, bl, <<>>) ELSE
    LET a == remove(bl, address) IN
    IF a.result # "Ok" THEN Ret(a.result, s, a.bl, <<>>) ELSE
    Ret("Ok", end_operation(s), a.bl, <<>>)

\* item_id is modelled by its length in bytes
validate_item_id(item_id_len) ==
    IF item_id_len = 0 THEN "InvalidAmount"
    ELSE IF ~(item_id_len <= 32) THEN "InvalidAmount"
    ELSE "Ok"

purchase_item(st, bl, amount, item_id_len, vault_owner, t, rail) ==
    IF ~BigLt(Big(0), amount) THEN Ret("InvalidAmount", st, bl, <<>>) ELSE
    IF validate_item_id(item_id_len) # "Ok"
    THEN Ret(validate_item_id(item_id_len), st, bl, <<>>) ELSE
    IF st.is_paused THEN Ret("ProgramPaused", st, bl, <<>>) ELSE
    LET g == start_operation(st, t) IN
    IF g.result # "Ok" THEN Ret(g.result, g.st, bl, <<>>) ELSE
    LET s == g.st IN
    IF vault_owner # s.vault_owner
    THEN Ret("InvalidVaultOwner", s, bl, <<>>) ELSE
    LET xfer == Cpi("purchase", amount, s) IN
    IF rail = 1 THEN Ret("CpiFailed", s, bl, <<xfer>>) ELSE
    Ret("Ok", end_operation(s), bl, <<xfer>>)

\* mutant: only the source is looked up
on_transfer_hook_source_only(st, bl, amount, source_owner, destination_owner) ==
    IF ~BigLt(Big(0), amount) THEN Ret("InvalidAmount", st, bl, <<>>) ELSE
    IF contains(bl, source_owner)
    THEN Ret("SourceAddressBlacklisted", st, bl, <<>>) ELSE
    Ret("Ok", st, bl, <<>>)

on_transfer_hook(st, bl, amount, source_owner, destination_owner) ==
    IF ~BigLt(Big(0), amount) THEN Ret("InvalidAmount", st, bl, <<>>) ELSE
    IF contains(bl, source_owner)
    THEN Ret("SourceAddressBlacklisted", st, bl, <<>>) ELSE
    IF contains(bl, destination_owner)
    THEN Ret("DestinationAddressBlacklisted", st, bl, <<>>) ELSE
    Ret("Ok", st, bl, <<>>)

\* mutant: the reserve is verified only while the program runs
verify_reserve_when_running(st, bl, reserve_amount) ==
    IF st.is_paused THEN Ret("ProgramPaused", st, bl, <<>>) ELSE
    LET expected_reserve == checked_mul(Big(st.total_supply), TOKEN_PRICE_USDC)
    IN
    IF ~expected_reserve.ok THEN Ret("MathOverflow", st, bl, <<>>) ELSE
    IF BigLt(reserve_amount, expected_reserve.val)
    THEN Ret("InsufficientReserve", st, bl, <<>>) ELSE
    Ret("Ok", st, bl, <<>>)

\* mutant: a reserve that exactly covers the supply is refused
verify_reserve_strict(st, bl, reserve_amount) ==
    LET expected_reserve == checked_mul(Big(st.total_supply), TOKEN_PRICE_USDC)
    IN
    IF ~expected_reserve.ok THEN Ret("MathOverflow", st, bl, <<>>) ELSE
    IF BigLe(reserve_amount, expected_reserve.val)
    THEN Ret("InsufficientReserve", st, bl, <<>>) ELSE
    Ret("Ok", st, bl, <<>>)

verify_reserve(st, bl, reserve_amount) ==
    LET expected_reserve == checked_mul(Big(st.total_supply), TOKEN_PRICE_USDC)
    IN
    IF ~expected_reserve.ok THEN Ret("MathOverflow", st, bl, <<>>) ELSE
    IF BigLt(reserve_amount, expected_reserve.val)
    THEN Ret("InsufficientReserve", st, bl, <<>>) ELSE
    Ret("Ok", st, bl, <<>>)

\* mutant: the caller is not compared with the authority
close_token_state_any_caller(st, bl, authority) ==
    IF ~st.is_paused THEN Ret("ProgramPaused", st, bl, <<>>) ELSE
    Ret("Ok", st, bl, <<>>)

close_token_state(st, bl, authority) ==
    IF ~is_admin(st, authority) THEN Ret("NotAuthorized", st, bl, <<>>) ELSE
    IF ~st.is_paused THEN Ret("ProgramPaused", st, bl, <<>>) ELSE
    Ret("Ok", st, bl, <<>>)

initialize(st, bl, payer, multisig, owners_len, threshold, rail) ==
    IF ~(threshold = MULTISIG_THRESHOLD /\ owners_len = MULTISIG_OWNERS)
    THEN Ret("InvalidMultisigThreshold", st, bl, <<>>) ELSE
    LET s == [st EXCEPT !.authority = payer,
                        !.total_supply = INITIAL_SUPPLY,
                        !.max_supply = MAX_SUPPLY,
                        !.is_paused = FALSE,
                        !.last_pause_timestamp = 0,
                        !.multisig = multisig,
                        !.vault_owner = VaultOwnerPda,
                        !.in_operation = FALSE,
                        !.last_operation_timestamp = 0]
        premint == Cpi("mint_to", Big(INITIAL_SUPPLY), s)
    IN
    IF rail = 1 THEN Ret("CpiFailed", s, <<>>, <<premint>>) ELSE
    Ret("Ok", [s EXCEPT !.total_supply = INITIAL_SUPPLY], <<>>, <<premint>>)

(***************************************************************************)
(* Instructions: the constraints of the #[derive(Accounts)] struct, checked *)
(* in the order of its fields before the handler is entered, then the       *)
(* handler.                                                                 *)
(***************************************************************************)
\* mutant: the blacklist constraint is missing
MintByUserIx_without_blacklist(st, bl, user, amount, t, rail) ==
    IF st.is_paused THEN Ret("ProgramPaused", st, bl, <<>>) ELSE
    mint_by_user(st, bl, amount, t, rail)

MintByUserIx(st, bl, user, amount, t, rail) ==
    IF st.is_paused THEN Ret("ProgramPaused", st, bl, <<>>) ELSE
    IF contains(bl, user) THEN Ret("AddressBlacklisted", st, bl, <<>>) ELSE
    mint_by_user(st, bl, amount, t, rail)

PurchaseItemIx(st, bl, amount, item_id_len, vault_owner, t, rail) ==
    IF st.is_paused THEN Ret("ProgramPaused", st, bl, <<>>) ELSE
    IF vault_owner # st.vault_owner
    THEN Ret("InvalidVaultOwner", st, bl, <<>>) ELSE
    purchase_item(st, bl, amount, item_id_len, vault_owner, t, rail)

TransferHookIx(st, bl, amount, source_owner, destination_owner) ==
    IF ~(Len(bl) <= MAX_BLACKLIST_SIZE)
    THEN Ret("BlacklistFull", st, bl, <<>>) ELSE
    on_transfer_hook(st, bl, amount, source_owner, destination_owner)

CloseTokenStateIx(st, bl, authority) ==
    IF ~st.is_paused THEN Ret("ProgramPaused", st, bl, <<>>) ELSE
    close_token_state(st, bl, authority)

\* mutant: only the token state is created with `init`
InitializeIx_token_state_only(st, bl, payer, multisig, owners_len, threshold, rail) ==
    IF token_state_live
    THEN Ret("AccountAlreadyInUse", st, bl, <<>>) ELSE
    initialize(TokenStateDefault, <<>>, payer, multisig, owners_len,
               threshold, rail)

\* `init` creates the account and fails when it already exists
InitializeIx(st, bl, payer, multisig, owners_len, threshold, rail) ==
    IF token_state_live \/ blacklist_live
    THEN Ret("AccountAlreadyInUse", st, bl, <<>>) ELSE
    initialize(TokenStateDefault, <<>>, payer, multisig, owners_len,
               threshold, rail)

\* Account<'info, T> loads only an account that exists
Load(live, st, bl, r) ==
    IF live THEN r ELSE Ret("AccountNotInitialized", st, bl, <<>>)

(***************************************************************************)
(* The end of an instruction: what reaches the persisted state.  On Ok the  *)
(* deserialized copy of a `mut` account is written back (AccountsExit); on  *)
(* Err the instruction fails and none of its effects remain.                *)
(***************************************************************************)
\* mutant: the copy is written back whatever the handler returns
exit_on_error_too(result, persisted, copy) == copy

exit(result, persisted, copy) == IF result = "Ok" THEN copy ELSE persisted

\* an instruction with outcome r; ts_mut and bl_mut tell whether token_state
\* and blacklist are `mut` in its accounts
Instruction(op, args, r, ts_mut, bl_mut) ==
    /\ token_state' =
           IF ts_mut THEN exit(r.result, token_state, r.st) ELSE token_state
    /\ blacklist' =
           IF bl_mut THEN exit(r.result, blacklist, r.bl) ELSE blacklist
    /\ last' = [op |-> op, args |-> args, result |-> r.result,
                cpis |-> r.cpis,
                settled |-> exit(r.result, <<>>, r.cpis)]
    /\ UNCHANGED <<now, ticks>>

Initialize(c) ==
    LET r == InitializeIx(token_state, blacklist, c.payer, c.multisig,
                          c.owners_len, c.threshold, c.rail)
    IN  /\ Instruction("initialize", c, r, TRUE, TRUE)
        /\ token_state_live' = exit(r.result, token_state_live, TRUE)
        /\ blacklist_live' = exit(r.result, blacklist_live, TRUE)

MintByUser(c) ==
    LET r == Load(token_state_live, token_state, blacklist,
                  MintByUserIx(token_state, blacklist, c.user, c.amount,
                               now, c.rail))
    IN  /\ Instruction("mint_by_user", c, r, TRUE, FALSE)
        /\ UNCHANGED <<token_state_live, blacklist_live>>

AdminBurn(c) ==
    LET r == Load(token_state_live, token_state, blacklist,
                  admin_burn(token_state, blacklist, c.amount, c.multisig,
                             c.vault_amount, c.refund_balance, now, c.rail))
    IN  /\ Instruction("admin_burn", c, r, TRUE, FALSE)
        /\ UNCHANGED <<token_state_live, blacklist_live>>

Pause(c) ==
    LET r == Load(token_state_live, token_state, blacklist,
                  pause(token_state, blacklist, c.multisig, now))
    IN  /\ Instruction("pause", c, r, TRUE, FALSE)
        /\ UNCHANGED <<token_state_live, blacklist_live>>

Unpause(c) ==
    LET r == Load(token_state_live, token_state, blacklist,
                  unpause(token_state, blacklist, c.multisig, now))
    IN  /\ Instruction("unpause", c, r, TRUE, FALSE)
        /\ UNCHANGED <<token_state_live, blacklist_live>>

UpdateMaxSupply(c) ==
    LET r == Load(token_state_live, token_state, blacklist,
                  update_max_supply(token_state, blacklist, c.new_max_supply,
                                    c.multisig))
    IN  /\ Instruction("update_max_supply", c, r, TRUE, FALSE)
        /\ UNCHANGED <<token_state_live, blacklist_live>>

AddToBlacklist(c) ==
    LET r == Load(token_state_live, token_state, blacklist,
                  add_to_blacklist(token_state, blacklist, c.address,
                                   c.multisig, now))
    IN  /\ Instruction("add_to_blacklist", c, r, TRUE, TRUE)
        /\ UNCHANGED <<token_state_live, blacklist_live>>

RemoveFromBlacklist(c) ==
    LET r == Load(token_state_live, token_state, blacklist,
                  remove_from_blacklist(token_state, blacklist, c.address,
                                        c.multisig, now))
    IN  /\ Instruction("remove_from_blacklist", c, r, TRUE, TRUE)
        /\ UNCHANGED <<token_state_live, blacklist_live>>

PurchaseItem(c) ==
    LET r == Load(token_state_live, token_state, blacklist,
                  PurchaseItemIx(token_state, blacklist, c.amount,
                                 c.item_id_len, c.vault_owner, now, c.rail))
    IN  /\ Instruction("purchase_item", c, r, FALSE, FALSE)
        /\ UNCHANGED <<token_state_live, blacklist_live>>

TransferHook(c) ==
    LET r == Load(blacklist_live, token_state, blacklist,
                  TransferHookIx(token_state, blacklist, c.amount,
                                 c.source_owner, c.destination_owner))
    IN  /\ Instruction("on_transfer_hook", c, r, FALSE, FALSE)
        /\ UNCHANGED <<token_state_live, blacklist_live>>

VerifyReserve(c) ==
    LET r == Load(token_state_live, token_state, blacklist,
                  verify_reserve(token_state, blacklist, c.reserve_amount))
    IN  /\ Instruction("verify_reserve", c, r, FALSE, FALSE)
        /\ UNCHANGED <<token_state_live, blacklist_live>>

\* `close = authority`: on Ok the account is closed as the instruction ends
CloseTokenState(c) ==
    LET r == Load(token_state_live, token_state, blacklist,
                  CloseTokenStateIx(token_state, blacklist, c.authority))
    IN  /\ Instruction("close_token_state", c, r, TRUE, FALSE)
        /\ token_state_live' = exit(r.result, token_state_live, FALSE)
        /\ UNCHANGED blacklist_live

\* the clock advances
Tick(d) ==
    /\ ticks < MaxTicks
    /\ ticks' = ticks + 1
    /\ now' = now + d
    /\ UNCHANGED <<token_state, token_state_live, blacklist, blacklist_live,
                   last>>

Init ==
    /\ token_state = TokenStateDefault
    /\ token_state_live = FALSE
    /\ blacklist = <<>>
    /\ blacklist_live = FALSE
    /\ now = 0
    /\ ticks = 0
    /\ last = [op |-> "none", args |-> <<>>, result |-> "none",
               cpis |-> <<>>, settled |-> <<>>]

Next ==
    \/ \E d \in ClockSteps : Tick(d)
    \/ \E c \in InitializeCalls : Initialize(c)
    \/ \E c \in MintCalls : MintByUser(c)
    \/ \E c \in BurnCalls : AdminBurn(c)
    \/ \E c \in [multisig : Presented] : Pause(c)
    \/ \E c \in [multisig : Presented] : Unpause(c)
    \/ \E c \in MaxSupplyCalls : UpdateMaxSupply(c)
    \/ \E c \in BlacklistCalls : AddToBlacklist(c)
    \/ \E c \in BlacklistCalls : RemoveFromBlacklist(c)
    \/ \E c \in PurchaseCalls : PurchaseItem(c)
    \/ \E c \in HookCalls : TransferHook(c)
    \/ \E c \in [reserve_amount : ReserveAmounts] : VerifyReserve(c)
    \/ \E c \in [authority : {PayerKey, "alice"}] : CloseTokenState(c)

Spec == Init /\ [][Next]_vars

(***************************************************************************)
(* Properties                                                               *)
(***************************************************************************)
(***************************************************************************)
(* The guard on its own: start_operation and end_operation applied to one   *)
(* TokenState value in place, in any order, as the clock advances.          *)
(***************************************************************************)
GuardCall(op, result) ==
    [op |-> op, args |-> <<>>, result |-> result, cpis |-> <<>>,
     settled |-> <<>>]

StartOperation ==
    LET g == start_operation(token_state, now)
    IN  /\ token_state' = g.st
        /\ last' = GuardCall("start_operation", g.result)
        /\ UNCHANGED <<token_state_live, blacklist, blacklist_live, now,
                       ticks>>

EndOperation ==
    /\ token_state' = end_operation(token_state)
    /\ last' = GuardCall("end_operation", "Ok")
    /\ UNCHANGED <<token_state_live, blacklist, blacklist_live, now, ticks>>

InitGuard ==
    /\ token_state \in {[initialize(TokenStateDefault, <<>>,
                                    PayerKey, MultisigKey, MULTISIG_OWNERS,
                                    MULTISIG_THRESHOLD, 0).st
                            EXCEPT !.last_operation_timestamp = t] :
                                t \in {0, OPERATION_COOLDOWN}}
    /\ token_state_live = TRUE
    /\ blacklist = <<>>
    /\ blacklist_live = TRUE
    /\ now \in {0, OPERATION_COOLDOWN, UNPAUSE_COOLDOWN}
    /\ ticks = 0
    /\ last = GuardCall("none", "none")

NextGuard ==
    \/ \E d \in ClockSteps : Tick(d)
    \/ StartOperation
    \/ EndOperation

SpecGuard == InitGuard /\ [][NextGuard]_vars

(***************************************************************************)
(* The blacklist up to its capacity: add_to_blacklist and                   *)
(* remove_from_blacklist on lists that earlier calls have filled with n     *)
(* distinct addresses "1" .. "n".                                           *)
(***************************************************************************)
Filled(n) == [i \in 1..n |-> ToString(i)]

FilledLengths == {0, 1, MAX_BLACKLIST_SIZE - 1, MAX_BLACKLIST_SIZE}

ListedCalls ==
    [address : Users \cup {"1", ToString(MAX_BLACKLIST_SIZE)},
     multisig : {MultisigKey}]

InitBlacklist ==
    /\ token_state = initialize(TokenStateDefault, <<>>, PayerKey,
                                MultisigKey, MULTISIG_OWNERS,
                                MULTISIG_THRESHOLD, 0).st
    /\ token_state_live = TRUE
    /\ blacklist \in {Filled(n) : n \in FilledLengths}
    /\ blacklist_live = TRUE
    /\ now = OPERATION_COOLDOWN
    /\ ticks = 0
    /\ last = [op |-> "none", args |-> <<>>, result |-> "none",
               cpis |-> <<>>, settled |-> <<>>]

NextBlacklist ==
    \/ \E d \in ClockSteps : Tick(d)
    \/ \E c \in ListedCalls : AddToBlacklist(c)
    \/ \E c \in ListedCalls : RemoveFromBlacklist(c)

SpecBlacklist == InitBlacklist /\ [][NextBlacklist]_vars

supply == token_state.total_supply
cap == token_state.max_supply

\* C1: in every state reachable from initialize, whatever instructions were
\* issued and however they ended, 0 <= total_supply <= max_supply.
C1_SupplyWithinCap ==
    token_state_live => 0 <= supply /\ supply <= cap

\* a mint has filled the cap exactly
C1_Witness ==
    /\ token_state_live
    /\ last.op = "mint_by_user" /\ last.result = "Ok"
    /\ supply = cap

C3_GuardReleased ==
    /\ ~token_state.in_operation
    /\ last.result # "ReentrancyNotAllowed"

\* a guarded instruction failed on a check that follows start_operation
C3_Witness ==
    /\ last.op = "mint_by_user" /\ last.result = "InvalidAmount"
    /\ ~token_state.in_operation

\* the step is a call of instruction op: the clock stands still and last'
\* is the record of the call
Called(op) == now' = now /\ last'.op = op

\* C6: mint_by_user makes the payment transfer, then the token mint, then
\* commits total_supply = new_supply (both calls see the old ledger value);
\* if the payment transfer or the token mint fails, the instruction fails and
\* total_supply is unchanged.
C6_MintSettlesThenCommits ==
    [][Called("mint_by_user") =>
          /\ last'.args.rail # 0 =>
                /\ last'.result # "Ok"
                /\ token_state'.total_supply = supply
          /\ last'.result = "CpiFailed" =>
                /\ last'.cpis[Len(last'.cpis)].kind =
                      IF last'.args.rail = 1 THEN "payment" ELSE "mint_to"
                /\ token_state'.total_supply = supply
          /\ last'.result = "Ok" =>
                /\ Len(last'.cpis) = 2
                /\ last'.cpis[1].kind = "payment"
                /\ last'.cpis[1].supply = supply
                /\ last'.cpis[2].kind = "mint_to"
                /\ last'.cpis[2].supply = supply
                /\ token_state'.total_supply =
                      supply + BigToInt(last'.args.amount)]_vars

\* the token mint failed after the payment transfer had gone through
C6_Witness ==
    /\ last.op = "mint_by_user" /\ last.result = "CpiFailed"
    /\ last.args.rail = 2
    /\ Len(last.cpis) = 2
    /\ last.settled = <<>>
    /\ supply = INITIAL_SUPPLY

\* the burn passed its checks up to the vault balance, so that what is left
\* to fail is the refund-balance check or a settlement call
BurnReachedSettlement ==
    /\ token_state_live
    /\ last'.args.multisig = token_state.multisig
    /\ ~token_state.is_paused
    /\ BigLt(Big(0), last'.args.amount)
    /\ BigLe(last'.args.amount, last'.args.vault_amount)
    /\ BigLe(last'.args.amount, Big(supply))
    /\ BigLt(BigMulInt(last'.args.amount, TOKEN_PRICE_USDC), TwoTo64)

\* C7: when admin_burn fails in the refund-balance check, in the burn call or
\* in the refund call, total_supply after the call is total_supply before it.
C7_FailedBurnKeepsLedger ==
    [][(/\ Called("admin_burn")
        /\ BurnReachedSettlement
        /\ \/ last'.args.rail # 0
           \/ BigLt(last'.args.refund_balance,
                    BigMulInt(last'.args.amount, TOKEN_PRICE_USDC)))
       => /\ last'.result # "Ok"
          /\ token_state'.total_supply = supply
          /\ last'.settled = <<>>]_vars

\* the refund account was short: the handler had already decremented its copy
\* of the ledger when it found out
C7_Witness ==
    /\ last.op = "admin_burn" /\ last.result = "InsufficientFunds"
    /\ last.args.amount = Big(50)
    /\ supply = INITIAL_SUPPLY

\* the account constraints of MintByUser and the guard let the call through
MintAdmitted ==
    /\ token_state_live /\ blacklist_live
    /\ ~token_state.is_paused
    /\ ~contains(blacklist, last'.args.user)
    /\ ~token_state.in_operation
    /\ now - token_state.last_operation_timestamp >= OPERATION_COOLDOWN

\* C8: a mint with amount > 0, MIN_PURCHASE_USDC <= amount * TOKEN_PRICE_USDC
\* <= MAX_PURCHASE_USDC, total_supply + amount <= max_supply, the program not
\* paused, the caller not blacklisted, the guard free, the cooldown elapsed
\* and both settlement calls succeeding, succeeds: total_supply becomes the
\* old total_supply + amount, the payment is amount * 800_000 and max_supply
\* is unchanged.
C8_MintSucceeds ==
    [][(/\ Called("mint_by_user")
        /\ MintAdmitted
        /\ last'.args.rail = 0
        /\ BigLt(Big(0), last'.args.amount)
        /\ BigLe(Big(MIN_PURCHASE_USDC),
                 BigMulInt(last'.args.amount, TOKEN_PRICE_USDC))
        /\ BigLe(BigMulInt(last'.args.amount, TOKEN_PRICE_USDC),
                 MAX_PURCHASE_USDC)
        /\ BigLe(BigAdd(Big(supply), last'.args.amount), Big(cap)))
       => /\ last'.result = "Ok"
          /\ token_state'.total_supply = supply + BigToInt(last'.args.amount)
          /\ token_state'.max_supply = cap
          /\ last'.settled[1].kind = "payment"
          /\ last'.settled[1].amount = BigMulInt(last'.args.amount, 800000)
          /\ last'.settled[2].kind = "mint_to"
          /\ last'.settled[2].amount = last'.args.amount
          /\ (supply = 8000000 /\ last'.args.amount = Big(50)) =>
                /\ last'.settled[1].amount = Big(40000000)
                /\ token_state'.total_supply = 8000050]_vars

\* the scenario: 50 tokens minted at supply 8_000_000 for 40_000_000
C8_Witness ==
    /\ last.op = "mint_by_user" /\ last.result = "Ok"
    /\ last.args.amount = Big(50)
    /\ last.settled[1].amount = Big(40000000)
    /\ supply = 8000050
    /\ cap = MAX_SUPPLY

\* the error of the first of the five checks, in order, that amount a violates,
\* "none" if it passes all five
C9_FirstViolated(a) ==
    IF a = Big(0) THEN "InvalidAmount"
    ELSE IF ~BigLt(BigMulInt(a, TOKEN_PRICE_USDC), TwoTo64)
    THEN "MathOverflow"
    ELSE IF BigLt(BigMulInt(a, TOKEN_PRICE_USDC), Big(MIN_PURCHASE_USDC))
    THEN "PurchaseAmountTooSmall"
    ELSE IF BigLt(MAX_PURCHASE_USDC, BigMulInt(a, TOKEN_PRICE_USDC))
    THEN "PurchaseAmountTooLarge"
    ELSE IF BigLt(Big(cap), BigAdd(Big(supply), a))
    THEN "MaxSupplyExceeded"
    ELSE "none"

\* C9: a mint that got past the account constraints and the guard is
\* rejected with InvalidAmount (amount = 0), MathOverflow (the price
\* overflows u64), PurchaseAmountTooSmall (payment below the minimum),
\* PurchaseAmountTooLarge (payment above the maximum) or MaxSupplyExceeded
\* (total_supply + amount above max_supply); the first of these checks that
\* is violated gives the error, and total_supply is unchanged.
C9_MintRejections ==
    [][(Called("mint_by_user") /\ MintAdmitted) =>
          /\ C9_FirstViolated(last'.args.amount) # "none" =>
                /\ last'.result = C9_FirstViolated(last'.args.amount)
                /\ token_state'.total_supply = supply
          /\ C9_FirstViolated(last'.args.amount) = "none" =>
                last'.result \in {"Ok", "CpiFailed"}]_vars

\* amount 1 violates two checks at once when the supply is at the cap: the
\* earlier one, the minimum purchase, gives the error
C9_Witness ==
    /\ last.op = "mint_by_user" /\ last.result = "PurchaseAmountTooSmall"
    /\ last.args.amount = Big(1)
    /\ supply = cap

\* C10: update_max_supply(new_max) succeeds only if 0 < new_max,
\* total_supply <= new_max and new_max <= max_supply, and then max_supply is
\* new_max; called by the multisig on the running program it rejects
\* new_max = 0 with InvalidMaxSupply, new_max < total_supply with
\* MaxSupplyReductionTooLarge and new_max > max_supply with
\* CannotIncreaseMaxSupply, leaving max_supply unchanged; and no step of any
\* instruction increases max_supply.
C10_MaxSupplyOnlyDecreases ==
    [][/\ token_state_live => token_state'.max_supply <= cap
       /\ Called("update_max_supply") =>
            LET new_max == last'.args.new_max_supply IN
            /\ last'.result = "Ok" =>
                  /\ BigLt(Big(0), new_max)
                  /\ BigLe(Big(supply), new_max)
                  /\ BigLe(new_max, Big(cap))
                  /\ Big(token_state'.max_supply) = new_max
            /\ last'.result # "Ok" => token_state'.max_supply = cap
            /\ (/\ token_state_live
                /\ last'.args.multisig = token_state.multisig
                /\ ~token_state.is_paused) =>
                  /\ new_max = Big(0) => last'.result = "InvalidMaxSupply"
                  /\ (new_max # Big(0) /\ BigLt(new_max, Big(supply))) =>
                        last'.result = "MaxSupplyReductionTooLarge"
                  /\ BigLt(Big(cap), new_max) =>
                        last'.result = "CannotIncreaseMaxSupply"]_vars

\* the cap was lowered, and a later call that tried to raise it again was
\* turned away
C10_Witness ==
    /\ last.op = "update_max_supply"
    /\ last.result = "CannotIncreaseMaxSupply"
    /\ cap < MAX_SUPPLY

\* C4: once start_operation has succeeded, a further start_operation with
\* no end_operation in between fails with ReentrancyNotAllowed whatever the
\* clock shows, and leaves in_operation and last_operation_timestamp as they
\* were.
C4_SecondStartRejected ==
    [][(/\ Called("start_operation")
        /\ last.op = "start_operation"
        /\ last.result \in {"Ok", "ReentrancyNotAllowed"})
       => /\ last'.result = "ReentrancyNotAllowed"
          /\ token_state'.in_operation = token_state.in_operation
          /\ token_state'.in_operation
          /\ token_state'.last_operation_timestamp =
                token_state.last_operation_timestamp]_vars

\* the second start_operation came long after the cooldown had elapsed
C4_Witness ==
    /\ last.op = "start_operation"
    /\ last.result = "ReentrancyNotAllowed"
    /\ token_state.in_operation
    /\ now - token_state.last_operation_timestamp >= UNPAUSE_COOLDOWN - 1

\* the call is made by the multisig on record, on the existing token state
ByMultisig ==
    token_state_live /\ last'.args.multisig = token_state.multisig

\* C11: while the program is paused last_pause_timestamp is the time t of the
\* successful pause; unpause at t' with t' - t < UNPAUSE_COOLDOWN fails with
\* UnpauseCooldownNotElapsed and leaves is_paused true, and unpause at
\* t' = t + UNPAUSE_COOLDOWN or later succeeds and sets is_paused false.
C11_UnpauseCooldown ==
    [][/\ (Called("pause") /\ last'.result = "Ok") =>
            token_state'.last_pause_timestamp = now
       /\ (token_state.is_paused /\ token_state'.is_paused) =>
            token_state'.last_pause_timestamp =
                token_state.last_pause_timestamp
       /\ (Called("unpause") /\ ByMultisig /\ token_state.is_paused) =>
            IF now - token_state.last_pause_timestamp < 900
            THEN /\ last'.result = "UnpauseCooldownNotElapsed"
                 /\ token_state'.is_paused
            ELSE /\ last'.result = "Ok"
                 /\ ~token_state'.is_paused]_vars

\* unpause went through exactly UNPAUSE_COOLDOWN after the pause
C11_Witness ==
    /\ last.op = "unpause" /\ last.result = "Ok"
    /\ ~token_state.is_paused
    /\ now - token_state.last_pause_timestamp = UNPAUSE_COOLDOWN

\* C12: pause of the paused program fails with AlreadyPaused and leaves
\* last_pause_timestamp as it was; unpause of the running program fails with
\* NotPaused; a successful pause sets is_paused and last_pause_timestamp = now.
C12_PauseTwice ==
    [][/\ (Called("pause") /\ ByMultisig) =>
            IF token_state.is_paused
            THEN /\ last'.result = "AlreadyPaused"
                 /\ token_state' = token_state
            ELSE /\ last'.result = "Ok"
                 /\ token_state'.is_paused
                 /\ token_state'.last_pause_timestamp = now
       /\ (Called("unpause") /\ ByMultisig /\ ~token_state.is_paused) =>
            /\ last'.result = "NotPaused"
            /\ token_state' = token_state]_vars

\* the second pause came later than the first and did not move the stamp
C12_Witness ==
    /\ last.op = "pause" /\ last.result = "AlreadyPaused"
    /\ token_state.is_paused
    /\ token_state.last_pause_timestamp < now

\* the instructions the pause suspends
SuspendedOps == {"mint_by_user", "admin_burn", "update_max_supply",
                 "add_to_blacklist", "remove_from_blacklist", "purchase_item"}

\* the step is a call of a suspended instruction on the paused program
CalledWhilePaused ==
    /\ now' = now
    /\ last'.op \in SuspendedOps
    /\ token_state_live
    /\ token_state.is_paused

CooldownElapsed ==
    now - token_state.last_operation_timestamp >= OPERATION_COOLDOWN

\* C13 as stated: while is_paused is true every call of mint_by_user,
\* admin_burn, update_max_supply, add_to_blacklist, remove_from_blacklist and
\* purchase_item is rejected with ProgramPaused, and total_supply, max_supply
\* and the blacklist do not change.
C13_PausedRejectsWithProgramPaused ==
    [][CalledWhilePaused =>
          /\ last'.result = "ProgramPaused"
          /\ token_state'.total_supply = supply
          /\ token_state'.max_supply = cap
          /\ blacklist' = blacklist]_vars

\* C13 amended: while is_paused is true every such call is rejected, and
\* total_supply, max_supply and the blacklist do not change; the error is
\* ProgramPaused for mint_by_user and purchase_item, and for the other four
\* unless an earlier check of the handler fails: amount = 0 in admin_burn
\* (InvalidAmount), the operation cooldown in admin_burn, add_to_blacklist
\* and remove_from_blacklist (OperationCooldownNotElapsed), or a multisig
\* other than the one on record (InvalidMultisig).
C13_PausedRejects ==
    [][CalledWhilePaused =>
          /\ last'.result # "Ok"
          /\ token_state'.total_supply = supply
          /\ token_state'.max_supply = cap
          /\ blacklist' = blacklist
          /\ last'.op \in {"mint_by_user", "purchase_item"} =>
                last'.result = "ProgramPaused"
          /\ last'.op = "update_max_supply" =>
                last'.result =
                    IF last'.args.multisig # token_state.multisig
                    THEN "InvalidMultisig" ELSE "ProgramPaused"
          /\ last'.op \in {"add_to_blacklist", "remove_from_blacklist"} =>
                last'.result =
                    IF ~CooldownElapsed THEN "OperationCooldownNotElapsed"
                    ELSE IF last'.args.multisig # token_state.multisig
                    THEN "InvalidMultisig" ELSE "ProgramPaused"
          /\ last'.op = "admin_burn" =>
                last'.result =
                    IF last'.args.amount = Big(0) THEN "InvalidAmount"
                    ELSE IF ~CooldownElapsed
                    THEN "OperationCooldownNotElapsed"
                    ELSE IF last'.args.multisig # token_state.multisig
                    THEN "InvalidMultisig" ELSE "ProgramPaused"]_vars

\* a burn by the multisig, past the cooldown, turned away by the pause
C13_Witness ==
    /\ last.op = "admin_burn" /\ last.result = "ProgramPaused"
    /\ token_state.is_paused
    /\ supply = INITIAL_SUPPLY

\* the hook's answer to a transfer of the call's amount from s to d
HookResult(s, d) ==
    TransferHookIx(token_state, blacklist, last'.args.amount, s, d).result

\* C16 as stated: on_transfer_hook denies a transfer exactly when the source
\* owner or the destination owner is in the blacklist and approves in every
\* other case, the decision being the same with source and destination
\* swapped; the error is SourceAddressBlacklisted when the source is
\* blacklisted and DestinationAddressBlacklisted when only the destination is.
C16_HookDeniesExactlyBlacklisted ==
    [][(Called("on_transfer_hook") /\ blacklist_live) =>
          LET s == last'.args.source_owner
              d == last'.args.destination_owner
          IN  /\ last'.result =
                    IF contains(blacklist, s) THEN "SourceAddressBlacklisted"
                    ELSE IF contains(blacklist, d)
                    THEN "DestinationAddressBlacklisted"
                    ELSE "Ok"
              /\ (HookResult(s, d) = "Ok") = (HookResult(d, s) = "Ok")]_vars

\* C16 amended: for a transfer of amount > 0 the above holds; a transfer of
\* amount 0 is denied with InvalidAmount whoever the owners are.
C16_HookDeniesBlacklisted ==
    [][(Called("on_transfer_hook") /\ blacklist_live) =>
          LET s == last'.args.source_owner
              d == last'.args.destination_owner
          IN  /\ last'.result =
                    IF last'.args.amount = Big(0) THEN "InvalidAmount"
                    ELSE IF contains(blacklist, s)
                    THEN "SourceAddressBlacklisted"
                    ELSE IF contains(blacklist, d)
                    THEN "DestinationAddressBlacklisted"
                    ELSE "Ok"
              /\ (HookResult(s, d) = "Ok") = (HookResult(d, s) = "Ok")
              /\ UNCHANGED <<token_state, blacklist>>]_vars

\* only the destination is blacklisted, and the transfer is denied
C16_Witness ==
    /\ last.op = "on_transfer_hook"
    /\ last.result = "DestinationAddressBlacklisted"
    /\ ~contains(blacklist, last.args.source_owner)
    /\ contains(blacklist, last.args.destination_owner)

\* C17: close_token_state succeeds only when is_paused is true and the caller
\* is token_state.authority, and then the account is closed; with is_paused
\* false or with any other caller it is rejected and the state persists.
C17_CloseOnlyPausedByAuthority ==
    [][(Called("close_token_state") /\ token_state_live) =>
          IF token_state.is_paused
             /\ last'.args.authority = token_state.authority
          THEN /\ last'.result = "Ok"
               /\ ~token_state_live'
          ELSE /\ last'.result # "Ok"
               /\ token_state_live'
               /\ token_state' = token_state]_vars

\* another caller tried to close the paused program and it is still there
C17_Witness ==
    /\ last.op = "close_token_state" /\ last.result = "NotAuthorized"
    /\ last.args.authority # token_state.authority
    /\ token_state.is_paused
    /\ token_state_live

\* C19: verify_reserve fails with InsufficientReserve exactly when the vault
\* balance is less than total_supply * TOKEN_PRICE_USDC, succeeds otherwise,
\* and changes nothing either way.
C19_ReserveCompared ==
    [][(Called("verify_reserve") /\ token_state_live) =>
          /\ last'.result =
                IF BigLt(last'.args.reserve_amount,
                         BigMulInt(Big(supply), TOKEN_PRICE_USDC))
                THEN "InsufficientReserve" ELSE "Ok"
          /\ UNCHANGED <<token_state, blacklist, token_state_live,
                         blacklist_live>>]_vars

\* the vault holds exactly what the supply needs
C19_Witness ==
    /\ last.op = "verify_reserve" /\ last.result = "Ok"
    /\ last.args.reserve_amount = BigMulInt(Big(supply), TOKEN_PRICE_USDC)

\* the instructions that take the multisig
MultisigOps == {"pause", "unpause", "update_max_supply", "add_to_blacklist",
                "remove_from_blacklist", "admin_burn"}

\* the step is a call of one of them with another identity than the one on
\* record
CalledByStranger ==
    /\ now' = now
    /\ last'.op \in MultisigOps
    /\ token_state_live
    /\ last'.args.multisig # token_state.multisig

\* C18 as stated: pause, unpause, update_max_supply, add_to_blacklist,
\* remove_from_blacklist and admin_burn called with an identity different
\* from token_state.multisig are rejected with InvalidMultisig and change
\* neither is_paused, max_supply, total_supply nor the blacklist.
C18_StrangerGetsInvalidMultisig ==
    [][CalledByStranger =>
          /\ last'.result = "InvalidMultisig"
          /\ token_state'.is_paused = token_state.is_paused
          /\ token_state'.max_supply = cap
          /\ token_state'.total_supply = supply
          /\ blacklist' = blacklist]_vars

\* C18 amended: such a call is rejected and changes nothing; the error is
\* InvalidMultisig for pause, unpause and update_max_supply, and for
\* add_to_blacklist, remove_from_blacklist and admin_burn unless an earlier
\* check fails: amount = 0 in admin_burn (InvalidAmount) or the operation
\* cooldown (OperationCooldownNotElapsed).
C18_StrangerRejected ==
    [][CalledByStranger =>
          /\ last'.result # "Ok"
          /\ token_state' = token_state
          /\ blacklist' = blacklist
          /\ last'.op \in {"pause", "unpause", "update_max_supply"} =>
                last'.result = "InvalidMultisig"
          /\ last'.op \in {"add_to_blacklist", "remove_from_blacklist"} =>
                last'.result =
                    IF ~CooldownElapsed THEN "OperationCooldownNotElapsed"
                    ELSE "InvalidMultisig"
          /\ last'.op = "admin_burn" =>
                last'.result =
                    IF last'.args.amount = Big(0) THEN "InvalidAmount"
                    ELSE IF ~CooldownElapsed
                    THEN "OperationCooldownNotElapsed"
                    ELSE "InvalidMultisig"]_vars

\* a stranger tried to lift the pause after the cooldown
C18_Witness ==
    /\ last.op = "unpause" /\ last.result = "InvalidMultisig"
    /\ token_state.is_paused
    /\ now - token_state.last_pause_timestamp >= UNPAUSE_COOLDOWN

\* the step is a mint by a user who is in the blacklist
MintByBlacklisted ==
    /\ Called("mint_by_user")
    /\ token_state_live
    /\ contains(blacklist, last'.args.user)

\* C20 as stated: a mint_by_user call of a user who is in the blacklist is
\* rejected with AddressBlacklisted and total_supply is unchanged.
C20_BlacklistedGetsAddressBlacklisted ==
    [][MintByBlacklisted =>
          /\ last'.result = "AddressBlacklisted"
          /\ token_state'.total_supply = supply]_vars

\* C20 amended: the call is rejected and total_supply is unchanged; the
\* error is AddressBlacklisted unless the program is paused, when it is
\* ProgramPaused.
C20_BlacklistedNeverMints ==
    [][MintByBlacklisted =>
          /\ last'.result = IF token_state.is_paused THEN "ProgramPaused"
                            ELSE "AddressBlacklisted"
          /\ token_state' = token_state
          /\ last'.settled = <<>>]_vars

\* a blacklisted user asked for a mint that would otherwise have gone through
C20_Witness ==
    /\ last.op = "mint_by_user" /\ last.result = "AddressBlacklisted"
    /\ last.args.amount = Big(50)
    /\ contains(blacklist, last.args.user)
    /\ ~token_state.is_paused
    /\ now - token_state.last_operation_timestamp >= OPERATION_COOLDOWN

Members(bl) == {bl[i] : i \in 1..Len(bl)}

NoDuplicates(bl) == Cardinality(Members(bl)) = Len(bl)

\* the call gets as far as the Blacklist method
ReachesBlacklist ==
    ByMultisig /\ ~token_state.is_paused /\ CooldownElapsed

\* C14: whatever add_to_blacklist and remove_from_blacklist calls are made,
\* the blacklist holds at most MAX_BLACKLIST_SIZE entries and none twice;
\* adding a new address to a blacklist of MAX_BLACKLIST_SIZE entries fails
\* with BlacklistFull and leaves the blacklist as it was.
C14_BlacklistBounded ==
    [][/\ Len(blacklist) <= MAX_BLACKLIST_SIZE /\ NoDuplicates(blacklist)
       /\ Len(blacklist') <= MAX_BLACKLIST_SIZE /\ NoDuplicates(blacklist')
       /\ (/\ Called("add_to_blacklist")
           /\ ReachesBlacklist
           /\ Len(blacklist) = MAX_BLACKLIST_SIZE
           /\ ~contains(blacklist, last'.args.address))
          => /\ last'.result = "BlacklistFull"
             /\ blacklist' = blacklist]_vars

\* the 101st address was turned away
C14_Witness ==
    /\ last.op = "add_to_blacklist" /\ last.result = "BlacklistFull"
    /\ Len(blacklist) = MAX_BLACKLIST_SIZE
    /\ ~contains(blacklist, last.args.address)

\* C15: for a blacklist that contains x, full or not, remove(x) succeeds,
\* makes x a non-member and leaves the membership of every other address as
\* it was; add(x) right after it succeeds and gives back the original
\* membership set.
C15_RemoveThenAdd ==
    [][/\ (/\ Called("remove_from_blacklist")
           /\ ReachesBlacklist
           /\ contains(blacklist, last'.args.address))
          => /\ last'.result = "Ok"
             /\ Members(blacklist') =
                   Members(blacklist) \ {last'.args.address}
             /\ Len(blacklist') = Len(blacklist) - 1
             /\ add(blacklist', last'.args.address).result = "Ok"
             /\ Members(add(blacklist', last'.args.address).bl) =
                   Members(blacklist)
       /\ (/\ Called("add_to_blacklist")
           /\ ReachesBlacklist
           /\ last.op = "remove_from_blacklist" /\ last.result = "Ok"
           /\ last'.args.address = last.args.address)
          => /\ last'.result = "Ok"
             /\ Members(blacklist') =
                   Members(blacklist) \cup {last'.args.address}]_vars

\* "1" was removed from the full blacklist, where the last entry took its
\* place, and added again
C15_Witness ==
    /\ last.op = "add_to_blacklist" /\ last.result = "Ok"
    /\ last.args.address = "1"
    /\ Len(blacklist) = MAX_BLACKLIST_SIZE
    /\ blacklist[1] = ToString(MAX_BLACKLIST_SIZE)
    /\ blacklist[MAX_BLACKLIST_SIZE] = "1"
    /\ Members(blacklist) = Members(Filled(MAX_BLACKLIST_SIZE))

\* C21: start_operation with in_operation false fails with
\* OperationCooldownNotElapsed when now - last_operation_timestamp <
\* OPERATION_COOLDOWN (1), leaving the state as it was, and otherwise succeeds
\* and sets in_operation = true and last_operation_timestamp = now;
\* end_operation sets in_operation = false from any state and leaves
\* last_operation_timestamp as it was.
C21_StartAndEnd ==
    [][/\ (Called("start_operation") /\ ~token_state.in_operation) =>
            IF now - token_state.last_operation_timestamp < 1
            THEN /\ last'.result = "OperationCooldownNotElapsed"
                 /\ token_state' = token_state
            ELSE /\ last'.result = "Ok"
                 /\ token_state' =
                       [token_state EXCEPT !.in_operation = TRUE,
                                           !.last_operation_timestamp = now]
       /\ Called("end_operation") =>
            token_state' = [token_state EXCEPT !.in_operation = FALSE]]_vars

\* an operation started exactly OPERATION_COOLDOWN after the one before it,
\* which had been ended
C21_Witness ==
    /\ last.op = "start_operation" /\ last.result = "Ok"
    /\ token_state.in_operation
    /\ token_state.last_operation_timestamp = now
    /\ now = 2 * OPERATION_COOLDOWN
    /\ ticks = 1

\* the instructions that call start_operation
GuardedOps == {"mint_by_user", "admin_burn", "add_to_blacklist",
               "remove_from_blacklist", "purchase_item"}

\* C22: under a non-decreasing clock last_operation_timestamp never
\* decreases, and every successful guarded operation (mint, burn, blacklist
\* add/remove, purchase) strictly increases it, so that at most one of them
\* succeeds per clock value.
C22_TimestampAdvances ==
    [][(token_state_live /\ token_state_live') =>
          /\ token_state'.last_operation_timestamp >=
                token_state.last_operation_timestamp
          /\ (now' = now /\ last'.op \in GuardedOps /\ last'.result = "Ok")
                => token_state'.last_operation_timestamp >
                      token_state.last_operation_timestamp]_vars

\* C30: a successful purchase_item at time t leaves the persisted state with
\* in_operation = false and last_operation_timestamp = t (so that a guarded
\* operation at the same t is rejected with OperationCooldownNotElapsed);
\* purchase_item rejects amount = 0 and an item id that is empty or longer
\* than 32 bytes, and changes neither total_supply, max_supply nor the
\* blacklist.
C30_PurchaseEngagesGuard ==
    [][(Called("purchase_item") /\ token_state_live) =>
          /\ token_state'.total_supply = supply
          /\ token_state'.max_supply = cap
          /\ blacklist' = blacklist
          /\ (\/ last'.args.amount = Big(0)
              \/ last'.args.item_id_len = 0
              \/ last'.args.item_id_len > 32) => last'.result # "Ok"
          /\ last'.result = "Ok" =>
                /\ ~token_state'.in_operation
                /\ token_state'.last_operation_timestamp = now]_vars

\* pause, unpause and update_max_supply
UnguardedOps == {"pause", "unpause", "update_max_supply"}

\* the clock still shows the value at which the last guarded operation
\* succeeded (initialize leaves last_operation_timestamp = 0)
SameClockAsGuarded ==
    /\ token_state.last_operation_timestamp > 0
    /\ token_state.last_operation_timestamp = now

\* C24 as stated: pause, unpause and update_max_supply pass through the
\* operation guard: they are rejected with ReentrancyNotAllowed when
\* in_operation is true and with OperationCooldownNotElapsed when invoked at
\* the clock value of the last guarded operation.
C24_EveryEntryPointGuarded ==
    [][(now' = now /\ last'.op \in UnguardedOps /\ token_state_live) =>
          /\ token_state.in_operation =>
                last'.result = "ReentrancyNotAllowed"
          /\ SameClockAsGuarded =>
                last'.result = "OperationCooldownNotElapsed"]_vars

\* C24 amended: mint_by_user, admin_burn, add_to_blacklist and
\* remove_from_blacklist are rejected with OperationCooldownNotElapsed at the
\* clock value of the last guarded operation; pause, unpause and
\* update_max_supply do not pass through the guard: they are never rejected
\* with ReentrancyNotAllowed or OperationCooldownNotElapsed and leave
\* in_operation and last_operation_timestamp as they were.
C24_GuardedAndUnguarded ==
    [][/\ (now' = now /\ last'.op \in UnguardedOps /\ token_state_live) =>
            /\ last'.result \notin {"ReentrancyNotAllowed",
                                    "OperationCooldownNotElapsed"}
            /\ token_state'.in_operation = token_state.in_operation
            /\ token_state'.last_operation_timestamp =
                  token_state.last_operation_timestamp
       /\ (/\ now' = now /\ token_state_live /\ SameClockAsGuarded
           /\ \/ last'.op \in {"add_to_blacklist", "remove_from_blacklist"}
              \/ /\ last'.op = "admin_burn"
                 /\ last'.args.amount # Big(0)
              \/ /\ last'.op = "mint_by_user"
                 /\ ~token_state.is_paused
                 /\ ~contains(blacklist, last'.args.user))
          => last'.result = "OperationCooldownNotElapsed"]_vars

\* the program was paused at the clock value of a guarded operation
C24_Witness ==
    /\ last.op = "pause" /\ last.result = "Ok"
    /\ token_state.last_pause_timestamp = now
    /\ token_state.last_operation_timestamp = now
    /\ now > 0

\* the call comes from a stranger while the program is paused, with the
\* guard free and the cooldown elapsed
StrangerWhilePaused ==
    /\ now' = now
    /\ token_state_live
    /\ token_state.is_paused
    /\ last'.args.multisig # token_state.multisig
    /\ ~token_state.in_operation
    /\ CooldownElapsed

\* C25 as stated: the checks come in the order operation guard, pause,
\* authorization: admin_burn, add_to_blacklist, remove_from_blacklist and
\* update_max_supply called while paused with a mismatched committee identity
\* (guard free, cooldown elapsed) report ProgramPaused, not InvalidMultisig.
C25_PauseBeforeAuthorization ==
    [][(/\ last'.op \in {"admin_burn", "add_to_blacklist",
                         "remove_from_blacklist", "update_max_supply"}
        /\ StrangerWhilePaused
        /\ last'.op = "admin_burn" => last'.args.amount # Big(0))
       => last'.result = "ProgramPaused"]_vars

\* C25 amended: in these four the authorization check comes before the
\* pause check (after the operation guard in admin_burn, add_to_blacklist
\* and remove_from_blacklist; update_max_supply has no guard): the call
\* reports InvalidMultisig, and the same call by the multisig on record
\* reports ProgramPaused.
C25_AuthorizationBeforePause ==
    [][(/\ now' = now
        /\ last'.op \in {"admin_burn", "add_to_blacklist",
                         "remove_from_blacklist", "update_max_supply"}
        /\ token_state_live
        /\ token_state.is_paused
        /\ CooldownElapsed
        /\ last'.op = "admin_burn" => last'.args.amount # Big(0))
       => last'.result =
             IF last'.args.multisig # token_state.multisig
             THEN "InvalidMultisig" ELSE "ProgramPaused"]_vars

\* a stranger's blacklist change on the paused program, past the cooldown
C25_Witness ==
    /\ last.op = "add_to_blacklist" /\ last.result = "InvalidMultisig"
    /\ token_state.is_paused
    /\ last.args.multisig # token_state.multisig
    /\ CooldownElapsed

\* C26: admin_burn succeeds only with amount > 0, a vault balance of at
\* least amount, amount <= total_supply, a refund amount * TOKEN_PRICE_USDC
\* within u64 and a refund balance of at least that; a successful burn lowers
\* total_supply by exactly amount and keeps max_supply.  A burn of more than
\* total_supply that passes the earlier checks is rejected with MathOverflow,
\* and a burn of 0 with InvalidAmount before the guard; both leave the
\* token state as it was.
C26_BurnSucceedsOnlyIf ==
    [][(Called("admin_burn") /\ token_state_live) =>
          /\ last'.result = "Ok" =>
                /\ BigLt(Big(0), last'.args.amount)
                /\ BigLe(last'.args.amount, last'.args.vault_amount)
                /\ BigLe(last'.args.amount, Big(supply))
                /\ BigLt(BigMulInt(last'.args.amount, TOKEN_PRICE_USDC),
                         TwoTo64)
                /\ BigLe(BigMulInt(last'.args.amount, TOKEN_PRICE_USDC),
                         last'.args.refund_balance)
                /\ Big(token_state'.total_supply) =
                      Big(supply - BigToInt(last'.args.amount))
                /\ token_state'.max_supply = cap
          /\ last'.args.amount = Big(0) =>
                /\ last'.result = "InvalidAmount"
                /\ token_state' = token_state
          /\ (/\ BigLt(Big(supply), last'.args.amount)
              /\ CooldownElapsed
              /\ last'.args.multisig = token_state.multisig
              /\ ~token_state.is_paused
              /\ BigLe(last'.args.amount, last'.args.vault_amount))
             => /\ last'.result = "MathOverflow"
                /\ token_state' = token_state]_vars

\* a burn of 50 units has been taken off the initial supply
C26_Witness ==
    /\ last.op = "admin_burn" /\ last.result = "Ok"
    /\ last.args.amount = Big(50)
    /\ last.settled # <<>>
    /\ token_state.total_supply = INITIAL_SUPPLY - 50
    /\ token_state.max_supply = MAX_SUPPLY

\* C27: adding an address that is on the blacklist fails with
\* AddressAlreadyBlacklisted, on a full blacklist too; removing an address
\* that is not on it fails with AddressNotBlacklisted; every failing call
\* leaves the blacklist as it was, a successful add makes it one entry
\* longer and a successful remove one entry shorter.
C27_BlacklistErrors ==
    [][/\ (Called("add_to_blacklist") /\ ReachesBlacklist) =>
            /\ contains(blacklist, last'.args.address) =>
                  last'.result = "AddressAlreadyBlacklisted"
            /\ last'.result = "Ok" =>
                  Len(blacklist') = Len(blacklist) + 1
       /\ (Called("remove_from_blacklist") /\ ReachesBlacklist) =>
            /\ ~contains(blacklist, last'.args.address) =>
                  last'.result = "AddressNotBlacklisted"
            /\ last'.result = "Ok" =>
                  Len(blacklist') = Len(blacklist) - 1
       /\ (/\ now' = now
           /\ last'.op \in {"add_to_blacklist", "remove_from_blacklist"}
           /\ last'.result # "Ok")
          => blacklist' = blacklist]_vars

\* a member of the full blacklist was added once more
C27_Witness ==
    /\ last.op = "add_to_blacklist"
    /\ last.result = "AddressAlreadyBlacklisted"
    /\ Len(blacklist) = MAX_BLACKLIST_SIZE
    /\ contains(blacklist, last.args.address)

\* the token state with the pause flag, the guard flag and the guard's
\* timestamp replaced
WithGuardFields(st, p, g, ts) ==
    [st EXCEPT !.is_paused = p, !.in_operation = g,
               !.last_operation_timestamp = ts]

\* C28: the result of verify_reserve and of on_transfer_hook is the same
\* whatever is_paused, in_operation and last_operation_timestamp are, and
\* neither changes the token state or the blacklist.
C28_ReadOnlyChecks ==
    [][/\ (Called("verify_reserve") /\ token_state_live) =>
            \A p, g \in BOOLEAN, ts \in {0, now} :
               verify_reserve(WithGuardFields(token_state, p, g, ts),
                              blacklist, last'.args.reserve_amount).result
                  = last'.result
       /\ (Called("on_transfer_hook") /\ blacklist_live) =>
            \A p, g \in BOOLEAN, ts \in {0, now} :
               TransferHookIx(WithGuardFields(token_state, p, g, ts),
                              blacklist, last'.args.amount,
                              last'.args.source_owner,
                              last'.args.destination_owner).result
                  = last'.result
       /\ (now' = now /\ last'.op \in {"verify_reserve", "on_transfer_hook"})
          => UNCHANGED <<token_state, blacklist,
                         token_state_live, blacklist_live>>]_vars

\* the reserve was verified on the paused program, at the clock value of
\* the last guarded operation
C28_Witness ==
    /\ last.op = "verify_reserve" /\ last.result = "Ok"
    /\ token_state.is_paused
    /\ token_state.last_operation_timestamp = now
    /\ now > 0

\* ---------------------------------------------------------------------
\* A mint whose payment transfer is used to invoke the program again.
\* The nested instruction loads the token state as it is stored (the
\* outer handler's copy, with in_operation set, is written only when the
\* outer instruction exits), and the outer instruction later writes its
\* own copy over whatever the nested one stored.  A runtime that refuses
\* the nested invocation, or a nested instruction that fails, fails the
\* transfer and with it the whole transaction.

NestedCalls ==
    {[op |-> "update_max_supply",
      args |-> [new_max_supply |-> n, multisig |-> MultisigKey]] :
        n \in {Big(INITIAL_SUPPLY - 1), Big(INITIAL_SUPPLY),
               Big(INITIAL_SUPPLY + 50)}}
    \cup {[op |-> "update_max_supply",
           args |-> [new_max_supply |-> Big(INITIAL_SUPPLY),
                     multisig |-> "alice"]],
          [op |-> "mint_by_user",
           args |-> [user |-> "bob", amount |-> Big(50), rail |-> 0]],
          [op |-> "admin_burn",
           args |-> [amount |-> Big(50), multisig |-> MultisigKey,
                     vault_amount |-> U64_MAX, refund_balance |-> U64_MAX,
                     rail |-> 0]]}

NestedIx(st, bl, n, t) ==
    CASE n.op = "update_max_supply" ->
            update_max_supply(st, bl, n.args.new_max_supply, n.args.multisig)
      [] n.op = "mint_by_user" ->
            MintByUserIx(st, bl, n.args.user, n.args.amount, t, n.args.rail)
      [] n.op = "admin_burn" ->
            admin_burn(st, bl, n.args.amount, n.args.multisig,
                       n.args.vault_amount, n.args.refund_balance, t,
                       n.args.rail)

\* the outcome r of the transaction, and the token state as it was stored
\* when the payment transfer returned
Reentered(r, during) ==
    [result |-> r.result, st |-> r.st, bl |-> r.bl, cpis |-> r.cpis,
     during |-> during]

\* mutant: the outer handler takes over the max_supply the nested
\* instruction stored
MintByUserReenteredIx_reloads(st, bl, user, amount, t, rail, n, refused) ==
    LET outer == MintByUserIx(st, bl, user, amount, t, rail)
        inner == IF refused THEN Ret("ReentrancyNotAllowed", st, bl, <<>>)
                 ELSE NestedIx(st, bl, n, t)
    IN  IF outer.cpis = <<>> THEN Reentered(outer, st) ELSE
        IF inner.result # "Ok"
        THEN Reentered(Ret(inner.result, st, bl, <<outer.cpis[1]>>), st) ELSE
        Reentered(Ret(outer.result,
                      [outer.st EXCEPT !.max_supply = inner.st.max_supply],
                      outer.bl, outer.cpis),
                  inner.st)

MintByUserReenteredIx(st, bl, user, amount, t, rail, n, refused) ==
    LET outer == MintByUserIx(st, bl, user, amount, t, rail)
        inner == IF refused THEN Ret("ReentrancyNotAllowed", st, bl, <<>>)
                 ELSE NestedIx(st, bl, n, t)
    IN  IF outer.cpis = <<>> THEN Reentered(outer, st) ELSE
        IF inner.result # "Ok"
        THEN Reentered(Ret(inner.result, st, bl, <<outer.cpis[1]>>), st) ELSE
        Reentered(outer, inner.st)

ReenteredCalls ==
    {[user |-> c.user, amount |-> c.amount, rail |-> c.rail,
      nested |-> n, refused |-> b] :
        c \in {m \in MintCalls : /\ m.user = "alice"
                                 /\ m.amount \in {Big(50), Big(125000)}},
        n \in NestedCalls, b \in BOOLEAN}

MintByUserReentered(c) ==
    LET r == MintByUserReenteredIx(token_state, blacklist, c.user, c.amount,
                                   now, c.rail, c.nested, c.refused)
    IN  /\ token_state_live
        /\ Instruction("mint_by_user",
                       [user |-> c.user, amount |-> c.amount,
                        rail |-> c.rail, nested |-> c.nested,
                        refused |-> c.refused, during |-> r.during],
                       r, TRUE, FALSE)
        /\ UNCHANGED <<token_state_live, blacklist_live>>

InitNested ==
    /\ token_state = initialize(TokenStateDefault, <<>>, PayerKey,
                                MultisigKey, MULTISIG_OWNERS,
                                MULTISIG_THRESHOLD, 0).st
    /\ token_state_live = TRUE
    /\ blacklist = <<>>
    /\ blacklist_live = TRUE
    /\ now = OPERATION_COOLDOWN
    /\ ticks = 0
    /\ last = [op |-> "none", args |-> <<>>, result |-> "none",
               cpis |-> <<>>, settled |-> <<>>]

NextNested ==
    \/ \E d \in ClockSteps : Tick(d)
    \/ \E c \in MaxSupplyCalls : UpdateMaxSupply(c)
    \/ \E c \in ReenteredCalls : MintByUserReentered(c)

SpecNested == InitNested /\ [][NextNested]_vars

\* C23: a mint whose payment transfer invokes the program again, with
\* update_max_supply(new_max) for total_supply <= new_max < total_supply +
\* amount or with another mint or burn, leaves total_supply <= max_supply
\* in the token state stored when the transfer returns and in the one
\* stored when the mint ends, with the guard released.
C23_ReentrantMintKeepsCap ==
    [][Called("mint_by_user") =>
          /\ last'.args.during.total_supply <= last'.args.during.max_supply
          /\ token_state'.total_supply <= token_state'.max_supply
          /\ ~token_state'.in_operation
          /\ last'.result # "Ok" => token_state' = token_state]_vars

\* the nested update_max_supply succeeded with a maximum below the supply
\* the mint then committed; the mint's own copy restored the maximum
C23_Witness ==
    /\ last.op = "mint_by_user" /\ last.result = "Ok"
    /\ ~last.args.refused
    /\ last.args.nested.op = "update_max_supply"
    /\ last.args.during.max_supply =
          BigToInt(last.args.nested.args.new_max_supply)
    /\ last.args.during.max_supply < token_state.total_supply
    /\ token_state.total_supply <= token_state.max_supply

\* C31: initialize succeeds only with threshold = MULTISIG_THRESHOLD and
\* MULTISIG_OWNERS owners, and on accounts that were never created; with
\* another threshold or number of owners it fails with
\* InvalidMultisigThreshold and creates nothing.  The token state it
\* creates has total_supply = INITIAL_SUPPLY, max_supply = MAX_SUPPLY, is
\* neither paused nor in operation, has both timestamps 0, and the blacklist
\* is empty.  Once it has succeeded, every later initialize fails and
\* changes nothing, also after the token state was closed.
C31_InitializeOnce ==
    [][Called("initialize") =>
          /\ last'.result = "Ok" =>
                /\ last'.args.threshold = MULTISIG_THRESHOLD
                /\ last'.args.owners_len = MULTISIG_OWNERS
                /\ ~token_state_live /\ ~blacklist_live
                /\ token_state_live' /\ blacklist_live'
                /\ token_state'.total_supply = INITIAL_SUPPLY
                /\ token_state'.max_supply = MAX_SUPPLY
                /\ ~token_state'.is_paused
                /\ ~token_state'.in_operation
                /\ token_state'.last_operation_timestamp = 0
                /\ token_state'.last_pause_timestamp = 0
                /\ blacklist' = <<>>
          /\ (/\ ~token_state_live /\ ~blacklist_live
              /\ \/ last'.args.threshold # MULTISIG_THRESHOLD
                 \/ last'.args.owners_len # MULTISIG_OWNERS)
             => /\ last'.result = "InvalidMultisigThreshold"
                /\ ~token_state_live' /\ ~blacklist_live'
          /\ (token_state_live \/ blacklist_live) =>
                /\ last'.result # "Ok"
                /\ UNCHANGED <<token_state, blacklist,
                               token_state_live, blacklist_live>>]_vars

\* initialize was called again after the token state had been closed
C31_Witness ==
    /\ last.op = "initialize" /\ last.result = "AccountAlreadyInUse"
    /\ last.args.threshold = MULTISIG_THRESHOLD
    /\ last.args.owners_len = MULTISIG_OWNERS
    /\ ~token_state_live
    /\ blacklist_live

\* C32: from a successful pause to the next successful unpause at least
\* UNPAUSE_COOLDOWN elapses, and total_supply, max_supply and the blacklist
\* stay what they were at the pause: no step taken on the paused program
\* changes them or last_pause_timestamp, which is the time of the pause.  A
\* successful unpause changes is_paused only, a successful pause is_paused
\* and last_pause_timestamp only, and a failed one nothing.
C32_PausedIntervalFrozen ==
    [][/\ (token_state_live /\ token_state.is_paused) =>
            /\ token_state.last_pause_timestamp <= now
            /\ blacklist' = blacklist
            /\ token_state_live' =>
                  /\ token_state'.total_supply = token_state.total_supply
                  /\ token_state'.max_supply = token_state.max_supply
                  /\ token_state'.last_pause_timestamp =
                        token_state.last_pause_timestamp
       /\ (Called("unpause") /\ token_state_live) =>
            /\ blacklist' = blacklist
            /\ IF last'.result = "Ok"
               THEN /\ token_state.is_paused
                    /\ now - token_state.last_pause_timestamp
                          >= UNPAUSE_COOLDOWN
                    /\ token_state' = [token_state EXCEPT !.is_paused = FALSE]
               ELSE token_state' = token_state
       /\ (Called("pause") /\ token_state_live) =>
            /\ blacklist' = blacklist
            /\ IF last'.result = "Ok"
               THEN token_state' =
                       [token_state EXCEPT !.is_paused = TRUE,
                                           !.last_pause_timestamp = now]
               ELSE token_state' = token_state]_vars

\* the maximum was lowered, the program paused, and unpause went through
\* UNPAUSE_COOLDOWN later with the maximum and the supply as they were
C32_Witness ==
    /\ last.op = "unpause" /\ last.result = "Ok"
    /\ ~token_state.is_paused
    /\ now - token_state.last_pause_timestamp >= UNPAUSE_COOLDOWN
    /\ token_state.max_supply = INITIAL_SUPPLY + 50
    /\ token_state.total_supply = INITIAL_SUPPLY
    /\ token_state.last_operation_timestamp = 0

\* C33: the token state always has 0 < max_supply <= 100_000_000 and
\* total_supply <= 100_000_000, so total_supply * TOKEN_PRICE_USDC fits a
\* u64 and verify_reserve never returns MathOverflow; a mint that gets as
\* far as the maximum has a payment within the purchase bounds and
\* total_supply + amount within u64, and mint_by_user returns MathOverflow
\* only when amount * TOKEN_PRICE_USDC exceeds u64.
C33_SupplyWithinBounds ==
    [][/\ token_state_live' =>
            /\ 0 < token_state'.max_supply
            /\ token_state'.max_supply <= 100000000
            /\ token_state'.total_supply <= 100000000
       /\ (Called("verify_reserve") /\ token_state_live) =>
            /\ BigLt(BigMulInt(Big(supply), TOKEN_PRICE_USDC), TwoTo64)
            /\ last'.result # "MathOverflow"
       /\ (Called("mint_by_user") /\ token_state_live) =>
            /\ last'.result = "MathOverflow" =>
                  ~BigLt(BigMulInt(last'.args.amount, TOKEN_PRICE_USDC),
                         TwoTo64)
            /\ last'.result \in {"Ok", "CpiFailed", "MaxSupplyExceeded"} =>
                  /\ BigLe(BigMulInt(last'.args.amount, TOKEN_PRICE_USDC),
                           MAX_PURCHASE_USDC)
                  /\ BigLt(BigAdd(Big(supply), last'.args.amount), TwoTo64)]_vars

\* a mint was refused with MathOverflow for the price of its amount, under
\* the initial maximum
C33_Witness ==
    /\ last.op = "mint_by_user" /\ last.result = "MathOverflow"
    /\ ~BigLt(BigMulInt(last.args.amount, TOKEN_PRICE_USDC), TwoTo64)
    /\ token_state_live
    /\ token_state.max_supply = 100000000

\* C34: every successful mint_by_user adds to total_supply an amount from 13
\* to 125_000; an amount from 1 to 12 never mints and, on a call that is
\* admitted to the handler's checks, is rejected with
\* PurchaseAmountTooSmall; an amount above 125_000 whose price fits a u64
\* never mints and is rejected with PurchaseAmountTooLarge; both whatever
\* room max_supply leaves.
C34_PurchaseBounds ==
    [][Called("mint_by_user") =>
          /\ last'.result = "Ok" =>
                /\ BigLe(Big(13), last'.args.amount)
                /\ BigLe(last'.args.amount, Big(125000))
                /\ token_state'.total_supply =
                      supply + BigToInt(last'.args.amount)
          /\ (last'.result # "PurchaseAmountTooSmall" /\ MintAdmitted) =>
                ~(/\ BigLe(Big(1), last'.args.amount)
                  /\ BigLe(last'.args.amount, Big(12)))
          /\ (last'.result # "PurchaseAmountTooLarge" /\ MintAdmitted) =>
                ~(/\ BigLt(Big(125000), last'.args.amount)
                  /\ BigLt(BigMulInt(last'.args.amount, TOKEN_PRICE_USDC),
                           TwoTo64))]_vars

\* 12 units were refused as too small although max_supply left no room at
\* all
C34_Witness ==
    /\ last.op = "mint_by_user" /\ last.result = "PurchaseAmountTooSmall"
    /\ last.args.amount = Big(12)
    /\ token_state_live
    /\ token_state.max_supply = token_state.total_supply

====
